---- MODULE Spec2Model ----
(***************************************************************************)
(* Versioned timeline-state store of the Snipix backend                    *)
(* (backend/services/timeline_service.py) over its MongoDB collections.    *)
(*                                                                         *)
(* Spec      : every request handler runs to completion (sequential        *)
(*             histories of Save / GetCurrent / GetByVersion / Update /    *)
(*             Restore / Delete).                                          *)
(* SpecConc  : request-handling tasks interleave at every await on the     *)
(*             document store (one action per store round trip).           *)
(***************************************************************************)
EXTENDS Integers, Sequences, FiniteSets, TLC

\* ------------------------------------------------------------------ bounds
\* snapshots ever inserted (ObjectIds handed out)
MaxId == 3
\* handler calls that wrote to a collection
MaxCalls == 4

\* ------------------------------------------------------------------ inputs
\* Python's None for Optional[str] fields
None == "None"

\* callers: u1 may use both projects, u2 neither
UserIds == {"u1", "u2"}

\* the projects collection: p1 is owned by u1, p2 has u1 as a collaborator
InitProjects ==
    [p \in {"p1", "p2"} |->
        IF p = "p1"
        THEN [user_id |-> "u1", collaborators |-> {}, is_deleted |-> FALSE]
        ELSE [user_id |-> "u3", collaborators |-> {"u1"}, is_deleted |-> FALSE]]

\* project ids a request may name (all exist)
ProjectIds == {"p1", "p2"}

\* request bodies for timeline_state, before pydantic fills the defaults
Payloads == { [layers |-> <<>>, playhead_time |-> 0], [playhead_time |-> 5] }

\* descriptions a Save or Update may carry
Descriptions == {None}

\* ------------------------------------------------------------------ schema
TimelineStateFields ==
    {"layers", "playhead_time", "zoom", "duration", "markers",
     "selected_clips", "is_playing", "is_snapping"}

\* field defaults of the TimelineState model
TimelineStateDefaults ==
    [layers |-> <<>>, playhead_time |-> 0, zoom |-> 1, duration |-> 0,
     markers |-> <<>>, selected_clips |-> <<>>, is_playing |-> FALSE,
     is_snapping |-> TRUE]

\* TimelineState(**d): validation of a dict into the model, defaults filled in
TimelineState(d) ==
    [f \in TimelineStateFields |->
        IF f \in DOMAIN d THEN d[f] ELSE TimelineStateDefaults[f]]

\* TimelineState.dict(): the model as a plain dict of its fields
TimelineStateDict(m) == [f \in DOMAIN m |-> m[f]]

\* the TimelineState models a request can carry
TimelineStates == { TimelineState(b) : b \in Payloads }

VARIABLES
    timeline_states,   \* the timeline_states collection: a set of documents
    projects,          \* the projects collection: project id -> document
    audit_logs,        \* the audit_logs collection, in insertion order
    next_id,           \* the next ObjectId the store hands out
    now,               \* datetime.now(), a logical clock
    task,              \* the in-flight request of every handling task
    files,             \* the media directory: path -> content of the file
    runs               \* the invocations of the transcoder, in order

vars == <<timeline_states, projects, audit_logs, next_id, now, task, files, runs>>

\* the collections as one value: what a handler runs against
Store ==
    [timeline_states |-> timeline_states, projects |-> projects,
     audit_logs |-> audit_logs, next_id |-> next_id, now |-> now]

\* ------------------------------------------------------------------ errors
\* classify_mongodb_error: the exceptions the service raises itself are no
\* pymongo errors, so each leaves the retry wrapper as a plain DatabaseError
classify_mongodb_error(kind) ==
    CASE kind \in {"ConnectionFailure", "ServerSelectionTimeoutError", "NetworkTimeout"}
            -> "RetryableError"
      [] kind = "DuplicateKeyError" -> "ValidationError"
      [] kind \in {"WriteError", "OperationFailure"} -> "OperationError"
      [] kind = "PyMongoError" -> "RetryableError"
      [] OTHER -> "DatabaseError"

\* what the caller of a handler gets: a return value ...
Returned(docs) == [status |-> "ok", value |-> docs]
\* ... or the exception that leaves retry_database_operation
Raised(kind, msg) ==
    [status |-> classify_mongodb_error(kind), raised |-> kind, msg |-> msg,
     value |-> <<>>]

AccessDenied == Raised("ValidationError", "not found or access denied")

\* a bool a handler returns, as a value that compares with a document
Bool(b) == [bool |-> b]

\* a handler's outcome: the collections afterwards and the caller's response
Outcome(s, coll, logs, id, t, resp) ==
    [timeline_states |-> coll, projects |-> s.projects, audit_logs |-> logs,
     next_id |-> id, now |-> t, response |-> resp]

\* an outcome that wrote nothing
NoWrite(s, resp) ==
    Outcome(s, s.timeline_states, s.audit_logs, s.next_id, s.now, resp)

\* ------------------------------------------------------------------ access
\* _has_project_access
has_project_access(project_doc, user_id) ==
    \/ project_doc.user_id = user_id
    \/ user_id \in project_doc.collaborators

\* mutant: the projects find_one without its is_deleted filter
validate_project_access_deletedToo(s, project_id, user_id) ==
    /\ project_id \in DOMAIN s.projects
    /\ has_project_access(s.projects[project_id], user_id)

\* _validate_project_access: TRUE iff a project document is returned
validate_project_access(s, project_id, user_id) ==
    /\ project_id \in DOMAIN s.projects
    /\ s.projects[project_id].is_deleted = FALSE
    /\ has_project_access(s.projects[project_id], user_id)

\* ------------------------------------------------------------------ store
\* documents of a project
OfProject(coll, project_id) == { d \in coll : d.project_id = project_id }

\* mutant: the update_many filter without project_id
UnsetCurrent_allProjects(coll, project_id, t) ==
    { IF d.is_current
      THEN [d EXCEPT !.is_current = FALSE, !.updated_at = t]
      ELSE d : d \in coll }

\* update_many({project_id, is_current: True}, {$set: {is_current: False, updated_at}})
UnsetCurrent(coll, project_id, t) ==
    { IF d.project_id = project_id /\ d.is_current
      THEN [d EXCEPT !.is_current = FALSE, !.updated_at = t]
      ELSE d : d \in coll }

\* find_one({project_id}, sort=[("version", -1)]): the candidates (empty: None)
FindLatest(coll, project_id) ==
    { d \in OfProject(coll, project_id) :
        \A e \in OfProject(coll, project_id) : e.version <= d.version }

\* mutant: the next version from the number of snapshots, not from the highest
NextVersion_count(coll, project_id) ==
    Cardinality(OfProject(coll, project_id)) + 1

\* next_version = (latest_state.get("version", 0) + 1) if latest_state else 1
NextVersion(coll, project_id) ==
    IF FindLatest(coll, project_id) = {} THEN 1
    ELSE (CHOOSE d \in FindLatest(coll, project_id) : TRUE).version + 1

\* the document save_timeline_state builds
TimelineDoc(id, project_id, model, version, description, change_summary, user_id, t) ==
    [id |-> id,
     project_id |-> project_id,
     timeline_state |-> TimelineStateDict(model),
     is_current |-> TRUE,
     version |-> version,
     description |-> description,
     created_by |-> user_id,
     change_summary |-> change_summary,
     created_at |-> t,
     updated_at |-> t]

\* TimelineStateDocument(**doc): the stored dict read back into the model
TimelineStateDocument(doc) ==
    [doc EXCEPT !.timeline_state = TimelineState(doc.timeline_state)]

\* find_one({project_id, is_current: True}): the candidates
FindCurrent(coll, project_id) ==
    { d \in OfProject(coll, project_id) : d.is_current }

\* mutant: the find_one filter without project_id
FindVersion_anyProject(coll, project_id, version) ==
    { d \in coll : d.version = version }

\* find_one({project_id, version}): the candidates
FindVersion(coll, project_id, version) ==
    { d \in OfProject(coll, project_id) : d.version = version }

\* find_one({_id}): the candidates
FindId(coll, id) == { d \in coll : d.id = id }

\* $set of an update on one document
SetFields(d, upd) == [f \in DOMAIN d |-> IF f \in DOMAIN upd THEN upd[f] ELSE d[f]]

\* mutant: the update without its _id filter
UpdateOne_everyDocument(coll, id, upd) == { SetFields(d, upd) : d \in coll }

\* update_one({_id}, {$set: upd}): the collection afterwards
UpdateOne(coll, id, upd) ==
    { IF d.id = id THEN SetFields(d, upd) ELSE d : d \in coll }

\* result.modified_count of that update_one
ModifiedCount(coll, id, upd) ==
    Cardinality({ d \in coll : d.id = id /\ SetFields(d, upd) # d })

\* delete_one({_id}): the collection afterwards
DeleteOne(coll, id) == { d \in coll : d.id # id }

\* ------------------------------------------------------------------ audit
\* the document _create_audit_log builds
AuditEntry(user_id, action, resource_id, details, t) ==
    [user_id |-> user_id, action |-> action, resource_type |-> "timeline_state",
     resource_id |-> resource_id, details |-> details, created_at |-> t,
     success |-> TRUE]

\* _create_audit_log: audit_logs after the insert_one
create_audit_log(logs, user_id, action, resource_id, details, t) ==
    Append(logs, AuditEntry(user_id, action, resource_id, details, t))

\* ------------------------------------------------------------------ handlers
\* Each handler is a function of the collections it runs against and of its
\* arguments; its value is the set of outcomes it can have (more than one only
\* where a find_one has several candidates).  Every write stamps the clock
\* and advances it.

\* save_timeline_state
save_timeline_state(s, project_id, user_id, model, description, change_summary) ==
    IF ~validate_project_access(s, project_id, user_id)
    THEN { NoWrite(s, AccessDenied) }
    ELSE LET unset == UnsetCurrent(s.timeline_states, project_id, s.now)
             next_version == NextVersion(unset, project_id)
             doc == TimelineDoc(s.next_id, project_id, model, next_version,
                                description, change_summary, user_id, s.now + 1)
             logs == create_audit_log(s.audit_logs, user_id, "create", doc.id,
                        [project_id |-> project_id, version |-> next_version,
                         description |-> description], s.now + 2)
         IN { Outcome(s, unset \cup {doc}, logs, s.next_id + 1, s.now + 3,
                      Returned(<<TimelineStateDocument(doc)>>)) }

\* get_current_timeline_state
get_current_timeline_state(s, project_id, user_id) ==
    IF ~validate_project_access(s, project_id, user_id)
    THEN { NoWrite(s, AccessDenied) }
    ELSE IF FindCurrent(s.timeline_states, project_id) = {}
    THEN { NoWrite(s, Returned(<<>>)) }
    ELSE { Outcome(s, s.timeline_states,
                   create_audit_log(s.audit_logs, user_id, "view", doc.id,
                       [project_id |-> project_id], s.now),
                   s.next_id, s.now + 1,
                   Returned(<<TimelineStateDocument(doc)>>))
           : doc \in FindCurrent(s.timeline_states, project_id) }

\* get_timeline_state_by_version
get_timeline_state_by_version(s, project_id, version, user_id) ==
    IF ~validate_project_access(s, project_id, user_id)
    THEN { NoWrite(s, AccessDenied) }
    ELSE IF FindVersion(s.timeline_states, project_id, version) = {}
    THEN { NoWrite(s, Returned(<<>>)) }
    ELSE { Outcome(s, s.timeline_states,
                   create_audit_log(s.audit_logs, user_id, "view", doc.id,
                       [project_id |-> project_id, version |-> version], s.now),
                   s.next_id, s.now + 1,
                   Returned(<<TimelineStateDocument(doc)>>))
           : doc \in FindVersion(s.timeline_states, project_id, version) }

\* find({project_id}).sort("version", -1): the orders the cursor can give
SortedByVersion(coll, project_id) ==
    LET docs == OfProject(coll, project_id)
        n == Cardinality(docs)
    IN { seq \in [1..n -> docs] :
           /\ \A i, j \in 1..n : i # j => seq[i] # seq[j]
           /\ \A i, j \in 1..n : i < j => seq[i].version >= seq[j].version }

\* .skip(skip).limit(limit) of a cursor
Page(seq, limit, skip) ==
    SubSeq(seq, skip + 1, IF skip + limit < Len(seq) THEN skip + limit ELSE Len(seq))

\* get_timeline_history
get_timeline_history(s, project_id, user_id, limit, skip) ==
    IF ~validate_project_access(s, project_id, user_id)
    THEN { NoWrite(s, AccessDenied) }
    ELSE { NoWrite(s, Returned([i \in 1..Len(Page(seq, limit, skip)) |->
                                  TimelineStateDocument(Page(seq, limit, skip)[i])]))
           : seq \in SortedByVersion(s.timeline_states, project_id) }

\* get_timeline_state_by_id
get_timeline_state_by_id(s, timeline_id, user_id) ==
    IF FindId(s.timeline_states, timeline_id) = {}
    THEN { NoWrite(s, Returned(<<>>)) }
    ELSE { IF ~validate_project_access(s, doc.project_id, user_id)
           THEN NoWrite(s, AccessDenied)
           ELSE NoWrite(s, Returned(<<TimelineStateDocument(doc)>>))
           : doc \in FindId(s.timeline_states, timeline_id) }

\* update_data of update_timeline_state: updated_at plus the fields that are not None
UpdateData(req, t) ==
    [f \in {"updated_at"} \cup DOMAIN req |->
        IF f = "updated_at" THEN t
        ELSE IF f = "timeline_state" THEN TimelineStateDict(req[f])
        ELSE req[f]]

\* update_timeline_state
update_timeline_state(s, timeline_id, req, user_id) ==
    IF FindId(s.timeline_states, timeline_id) = {}
    THEN { NoWrite(s, Returned(<<>>)) }
    ELSE LET existing == CHOOSE d \in FindId(s.timeline_states, timeline_id) : TRUE
             update_data == UpdateData(req, s.now)
         IN IF ~validate_project_access(s, existing.project_id, user_id)
            THEN { NoWrite(s, AccessDenied) }
            ELSE IF ModifiedCount(s.timeline_states, timeline_id, update_data) = 0
            THEN { NoWrite(s, Raised("OperationError", "Failed to update timeline state")) }
            ELSE LET updated == Outcome(s,
                        UpdateOne(s.timeline_states, timeline_id, update_data),
                        create_audit_log(s.audit_logs, user_id, "update", timeline_id,
                                         update_data, s.now + 1),
                        s.next_id, s.now + 2, Returned(<<>>))
                 IN { [updated EXCEPT !.response = g.response]
                      : g \in get_timeline_state_by_id(updated, timeline_id, user_id) }

\* mutant: Restore without the update_many that unsets the current snapshot
RestoreFound_noUnset(g, project_id, version, user_id) ==
    LET timeline_to_restore == g.response.value[1]
        upd == [is_current |-> TRUE, updated_at |-> g.now + 1]
    IN IF ModifiedCount(g.timeline_states, timeline_to_restore.id, upd) = 0
       THEN Outcome(g, g.timeline_states, g.audit_logs, g.next_id, g.now + 2,
                    Raised("OperationError", "Failed to restore timeline state"))
       ELSE Outcome(g, UpdateOne(g.timeline_states, timeline_to_restore.id, upd),
                    create_audit_log(g.audit_logs, user_id, "update",
                        timeline_to_restore.id,
                        [action |-> "restore", project_id |-> project_id,
                         version |-> version], g.now + 2),
                    g.next_id, g.now + 3,
                    Returned(<<timeline_to_restore>>))

\* mutant: Restore that leaves the target out of the update_many and sets
\* only is_current, so that restoring the current snapshot modifies nothing
RestoreFound_skipTarget(g, project_id, version, user_id) ==
    LET timeline_to_restore == g.response.value[1]
        unset == { IF d.id = timeline_to_restore.id
                   THEN d
                   ELSE CHOOSE e \in UnsetCurrent({d}, project_id, g.now) : TRUE
                   : d \in g.timeline_states }
        upd == [is_current |-> TRUE]
    IN IF ModifiedCount(unset, timeline_to_restore.id, upd) = 0
       THEN Outcome(g, unset, g.audit_logs, g.next_id, g.now + 2,
                    Raised("OperationError", "Failed to restore timeline state"))
       ELSE Outcome(g, UpdateOne(unset, timeline_to_restore.id, upd),
                    create_audit_log(g.audit_logs, user_id, "update",
                        timeline_to_restore.id,
                        [action |-> "restore", project_id |-> project_id,
                         version |-> version], g.now + 2),
                    g.next_id, g.now + 3,
                    Returned(<<timeline_to_restore>>))

\* restore_timeline_state, after get_timeline_state_by_version gave outcome g
RestoreFound(g, project_id, version, user_id) ==
    LET timeline_to_restore == g.response.value[1]
        unset == UnsetCurrent(g.timeline_states, project_id, g.now)
        upd == [is_current |-> TRUE, updated_at |-> g.now + 1]
    IN IF ModifiedCount(unset, timeline_to_restore.id, upd) = 0
       THEN Outcome(g, unset, g.audit_logs, g.next_id, g.now + 2,
                    Raised("OperationError", "Failed to restore timeline state"))
       ELSE Outcome(g, UpdateOne(unset, timeline_to_restore.id, upd),
                    create_audit_log(g.audit_logs, user_id, "update",
                        timeline_to_restore.id,
                        [action |-> "restore", project_id |-> project_id,
                         version |-> version], g.now + 2),
                    g.next_id, g.now + 3,
                    Returned(<<timeline_to_restore>>))

\* mutant: Restore that runs its update_many before it looks the version up
restore_timeline_state_unsetFirst(s, project_id, version, user_id) ==
    IF ~validate_project_access(s, project_id, user_id)
    THEN { NoWrite(s, AccessDenied) }
    ELSE { IF g.response.status # "ok"
           THEN [g EXCEPT !.response = Raised(g.response.status, g.response.msg)]
           ELSE IF g.response.value = <<>>
           THEN Outcome(s, UnsetCurrent(s.timeline_states, project_id, s.now),
                        s.audit_logs, s.next_id, s.now + 1, Returned(<<>>))
           ELSE RestoreFound(g, project_id, version, user_id)
           : g \in get_timeline_state_by_version(s, project_id, version, user_id) }

\* restore_timeline_state
restore_timeline_state(s, project_id, version, user_id) ==
    IF ~validate_project_access(s, project_id, user_id)
    THEN { NoWrite(s, AccessDenied) }
    ELSE { IF g.response.status # "ok"
           THEN [g EXCEPT !.response = Raised(g.response.status, g.response.msg)]
           ELSE IF g.response.value = <<>>
           THEN g
           ELSE RestoreFound(g, project_id, version, user_id)
           : g \in get_timeline_state_by_version(s, project_id, version, user_id) }

\* mutant: Delete without the check of is_current
delete_timeline_state_anyFlag(s, timeline_id, user_id) ==
    IF FindId(s.timeline_states, timeline_id) = {}
    THEN { NoWrite(s, Returned(<<Bool(FALSE)>>)) }
    ELSE LET existing == CHOOSE d \in FindId(s.timeline_states, timeline_id) : TRUE
         IN IF ~validate_project_access(s, existing.project_id, user_id)
            THEN { NoWrite(s, AccessDenied) }
            ELSE { Outcome(s, DeleteOne(s.timeline_states, timeline_id),
                           create_audit_log(s.audit_logs, user_id, "delete", timeline_id,
                               [project_id |-> existing.project_id,
                                version |-> existing.version], s.now),
                           s.next_id, s.now + 1, Returned(<<Bool(TRUE)>>)) }

\* delete_timeline_state
delete_timeline_state(s, timeline_id, user_id) ==
    IF FindId(s.timeline_states, timeline_id) = {}
    THEN { NoWrite(s, Returned(<<Bool(FALSE)>>)) }
    ELSE LET existing == CHOOSE d \in FindId(s.timeline_states, timeline_id) : TRUE
         IN IF ~validate_project_access(s, existing.project_id, user_id)
            THEN { NoWrite(s, AccessDenied) }
            ELSE IF existing.is_current
            THEN { NoWrite(s, Raised("ValidationError",
                                     "Cannot delete current timeline state")) }
            ELSE { Outcome(s, DeleteOne(s.timeline_states, timeline_id),
                           create_audit_log(s.audit_logs, user_id, "delete", timeline_id,
                               [project_id |-> existing.project_id,
                                version |-> existing.version], s.now),
                           s.next_id, s.now + 1, Returned(<<Bool(TRUE)>>)) }

\* ------------------------------------------------------------------ projects
\* backend/services/project_service.py: what changes is_deleted.  The audit
\* entries of both services go to the same collection.

\* ProjectService._create_audit_log: audit_logs after the insert_one
create_project_audit_log(logs, user_id, action, resource_id, details, t) ==
    Append(logs, [user_id |-> user_id, action |-> action, resource_type |-> "project",
                  resource_id |-> resource_id, details |-> details, created_at |-> t,
                  success |-> TRUE])

\* update_one({_id}, {$set: upd}) on the projects collection
SetProject(projs, project_id, upd) ==
    [p \in DOMAIN projs |->
        IF p = project_id
        THEN [f \in DOMAIN projs[p] \cup DOMAIN upd |->
                 IF f \in DOMAIN upd THEN upd[f] ELSE projs[p][f]]
        ELSE projs[p]]

\* an outcome that wrote the projects collection
ProjectOutcome(s, projs, logs, t, resp) ==
    [Outcome(s, s.timeline_states, logs, s.next_id, t, resp) EXCEPT !.projects = projs]

\* get_project
get_project(s, project_id, user_id) ==
    IF project_id \notin DOMAIN s.projects \/ s.projects[project_id].is_deleted # FALSE
    THEN { NoWrite(s, Returned(<<>>)) }
    ELSE IF ~has_project_access(s.projects[project_id], user_id)
    THEN { NoWrite(s, Raised("ValidationError", "Access denied to project")) }
    ELSE { ProjectOutcome(s, s.projects,
               create_project_audit_log(s.audit_logs, user_id, "view", project_id,
                                        <<>>, s.now),
               s.now + 1, Returned(<<s.projects[project_id]>>)) }

\* delete_project.  The hard delete removes the document and then reads
\* modified_count of a DeleteResult, which has no such attribute.
delete_project(s, project_id, user_id, hard_delete) ==
    UNION {
        IF g.response.status # "ok" THEN { g }
        ELSE IF g.response.value = <<>>
        THEN { [g EXCEPT !.response = Returned(<<Bool(FALSE)>>)] }
        ELSE IF hard_delete
        THEN { ProjectOutcome(g, [p \in DOMAIN g.projects \ {project_id} |-> g.projects[p]],
                   g.audit_logs, g.now + 1,
                   Raised("AttributeError", "'DeleteResult' object has no attribute")) }
        ELSE { ProjectOutcome(g,
                   SetProject(g.projects, project_id,
                       [is_deleted |-> TRUE, deleted_at |-> g.now, updated_at |-> g.now]),
                   create_project_audit_log(g.audit_logs, user_id, "soft_delete",
                       project_id, [hard_delete |-> hard_delete], g.now + 1),
                   g.now + 2, Returned(<<Bool(TRUE)>>)) }
        : g \in get_project(s, project_id, user_id) }

\* restore_project
restore_project(s, project_id, user_id) ==
    IF project_id \notin DOMAIN s.projects \/ s.projects[project_id].is_deleted # TRUE
    THEN { NoWrite(s, Returned(<<Bool(FALSE)>>)) }
    ELSE IF ~has_project_access(s.projects[project_id], user_id)
    THEN { NoWrite(s, Raised("ValidationError", "Access denied to project")) }
    ELSE { ProjectOutcome(s,
               SetProject(s.projects, project_id,
                   [is_deleted |-> FALSE, deleted_at |-> None, updated_at |-> s.now]),
               create_project_audit_log(s.audit_logs, user_id, "restore", project_id,
                                        <<>>, s.now + 1),
               s.now + 2, Returned(<<Bool(TRUE)>>)) }

\* ------------------------------------------------------------------ API
\* get_user_friendly_message of the exception e a route caught, by its class
get_user_friendly_message(kind) ==
    IF kind \in {"ConnectionFailure", "ServerSelectionTimeoutError", "NetworkTimeout"}
    THEN "Database connection issue. Please try again in a moment."
    ELSE IF kind = "DuplicateKeyError" \/ classify_mongodb_error(kind) = "ValidationError"
    THEN "Invalid data provided. Please check your input."
    ELSE "An unexpected error occurred. Please try again."

\* the HTTPException a route raises for an exception of a handler
HTTPError(kind) ==
    [status_code |-> 500, detail |-> get_user_friendly_message(kind)]

\* ApiResponse(success=True, data, message)
ApiResponse(data, message) ==
    [status_code |-> 200, success |-> TRUE, data |-> data, message |-> message]

\* the TimelineStateDocument the route GET /{project_id} builds when the
\* service returns None; its id stays None (0: no ObjectId of the store)
EmptyTimelineStateDocument(project_id, user_id, t) ==
    [id |-> 0,
     project_id |-> project_id,
     timeline_state |-> TimelineState(
         [layers |-> <<>>, playhead_time |-> 0, zoom |-> 1, duration |-> 0,
          markers |-> <<>>, selected_clips |-> <<>>, is_playing |-> FALSE,
          is_snapping |-> TRUE]),
     is_current |-> TRUE,
     version |-> 1,
     description |-> None,
     created_by |-> user_id,
     change_summary |-> None,
     created_at |-> t,
     updated_at |-> t]

\* the route GET /{project_id}: get_current_timeline_state, and an empty
\* timeline state when there is none
get_timeline_state(s, project_id, user_id) ==
    { [o EXCEPT !.response =
          IF o.response.status # "ok"
          THEN HTTPError(o.response.status)
          ELSE IF o.response.value = <<>>
          THEN ApiResponse(EmptyTimelineStateDocument(project_id, user_id, o.now),
                           "Empty timeline state created for new project")
          ELSE ApiResponse(o.response.value[1],
                           "Timeline state retrieved successfully")]
      : o \in get_current_timeline_state(s, project_id, user_id) }

\* ------------------------------------------------------------------ media
\* backend/services/media_service.py: the segment compiler.  Times are
\* seconds, here whole numbers.  A path is its directory and the pieces its
\* file name is formatted from.

\* transcoder invocations in a history
MaxRuns == 2
\* segments in a request
MaxSegments == 2

\* os.path.join(dir, name)
Join(dir, name) == [dir |-> dir, name |-> name]

\* os.path.basename(path)
basename(path) == path.name

\* os.path.abspath(path): the working directory is put in front
abspath(path) == [path EXCEPT !.dir = <<"cwd">> \o path.dir]

\* the file an absolute path names
Resolve(path) ==
    IF path.dir # <<>> /\ Head(path.dir) = "cwd"
    THEN [path EXCEPT !.dir = Tail(path.dir)]
    ELSE path

\* self.processed_dir
processed_dir == <<"media", "processed">>

\* the uploaded videos a request can name
Videos == { Join(<<"media", "videos">>, <<"a.mp4">>) }

\* the uploaded videos the requests of two server processes can name
TrimVideos == Videos \cup { Join(<<"media", "videos">>, <<"b.mp4">>) }

\* the media directory before any compile
InitFiles == [p \in TrimVideos |-> [kind |-> "source"]]

\* the segments a request can carry
Segments ==
    { [startTime |-> 0, duration |-> 2], [startTime |-> 4, duration |-> 2],
      [startTime |-> -1, duration |-> 2], [startTime |-> 0, duration |-> 0] }

SegmentLists == UNION { [1..n -> Segments] : n \in 0..MaxSegments }

\* mutant: the segments stay in the caller's order
SortByStart_callerOrder(seq) == seq

\* segments.sort(key=lambda x: x['startTime']): a stable sort
RECURSIVE SortByStart(_)
SortByStart(seq) ==
    IF seq = <<>> THEN <<>>
    ELSE LET x == seq[Len(seq)]
             front == SortByStart(SubSeq(seq, 1, Len(seq) - 1))
             n == Cardinality({ i \in 1..Len(front) : front[i].startTime <= x.startTime })
         IN SubSeq(front, 1, n) \o <<x>> \o SubSeq(front, n + 1, Len(front))

\* ffmpeg.input(input, ss, t).output(output, copy).overwrite_output().run()
ExtractRun(input, ss, t, output) ==
    [op |-> "extract", input |-> input, ss |-> ss, t |-> t, output |-> output]

\* ffmpeg.input(concat_file, format='concat', safe=0).output(output, copy).overwrite_output().run()
ConcatRun(concat_file, output) ==
    [op |-> "concat", input |-> concat_file, output |-> output]

\* the content of an extract: one clip of the input
Clip(input, ss, t) ==
    [kind |-> "video", clips |-> <<[input |-> input, ss |-> ss, t |-> t]>>]

\* the media directory after path was written with content
Written(dir, path, content) ==
    [p \in DOMAIN dir \cup {path} |-> IF p = path THEN content ELSE dir[p]]

\* the media directory after os.remove of every path that exists
Removed(dir, paths) == [p \in DOMAIN dir \ paths |-> dir[p]]

\* what a failed invocation leaves at its output path: the directory as it
\* was, or a partly written file
FailedOutputs(dir, path) == { dir, Written(dir, path, [kind |-> "partial"]) }

\* an exception that leaves the compiler as it was raised
Escaped(kind) == [status |-> kind, raised |-> kind, msg |-> "", value |-> <<>>]

\* the media directory and the transcoder log as one value
FS == [files |-> files, runs |-> runs]

\* trim_video
trim_video(fs, video_path, start_time, end_time) ==
    LET duration == end_time - start_time
        output_path == Join(processed_dir, <<"trimmed_">> \o basename(video_path))
        log == Append(fs.runs, ExtractRun(video_path, start_time, duration, output_path))
    IN { [files |-> Written(fs.files, output_path, Clip(video_path, start_time, duration)),
          runs |-> log, response |-> Returned(<<output_path>>)]
         : ok \in { x \in {TRUE} : video_path \in DOMAIN fs.files } }
       \cup
       { [files |-> f, runs |-> log, response |-> Escaped("ffmpeg.Error")]
         : f \in FailedOutputs(fs.files, output_path) }

\* the for loop of trim_video_segments from segment Len(temp_files) on: where
\* it can end, with an extract that raised or with all temp files made
RECURSIVE ExtractSegments(_, _, _, _)
ExtractSegments(fs, video_path, segments, temp_files) ==
    LET i == Len(temp_files)
    IN IF i = Len(segments)
       THEN { [files |-> fs.files, runs |-> fs.runs, temp_files |-> temp_files,
               raised |-> FALSE] }
       ELSE LET segment == segments[i + 1]
                temp_path == Join(processed_dir,
                    <<"temp_segment_", ToString(i), "_">> \o basename(video_path))
                log == Append(fs.runs, ExtractRun(video_path, segment.startTime,
                                                  segment.duration, temp_path))
            IN { [files |-> f, runs |-> log, temp_files |-> temp_files, raised |-> TRUE]
                 : f \in FailedOutputs(fs.files, temp_path) }
               \cup
               ( IF video_path \in DOMAIN fs.files
                 THEN ExtractSegments(
                        [files |-> Written(fs.files, temp_path,
                             Clip(video_path, segment.startTime, segment.duration)),
                         runs |-> log],
                        video_path, segments, Append(temp_files, temp_path))
                 ELSE {} )

\* the clips of the files a concat list names, in its order
RECURSIVE ConcatClips(_, _)
ConcatClips(dir, lines) ==
    IF lines = <<>> THEN <<>>
    ELSE dir[Resolve(Head(lines))].clips \o ConcatClips(dir, Tail(lines))

\* the paths of a list of paths
PathsOf(seq) == { seq[i] : i \in 1..Len(seq) }

\* trim_video_segments with two or more segments, sorted
MultiSegment(fs, video_path, segments) ==
    LET output_path == Join(processed_dir, <<"segments_">> \o basename(video_path))
        concat_file == Join(processed_dir, <<"concat_list.txt">>)
    IN UNION {
         IF e.raised
         THEN { [files |-> Removed(e.files, PathsOf(e.temp_files)), runs |-> e.runs,
                 response |-> Escaped("ffmpeg.Error")] }
         ELSE LET lines == [j \in 1..Len(e.temp_files) |-> abspath(e.temp_files[j])]
                  listed == Written(e.files, concat_file,
                                    [kind |-> "list", lines |-> lines])
                  log == Append(e.runs, ConcatRun(concat_file, output_path))
              IN { [files |-> Removed(
                                Written(listed, output_path,
                                    [kind |-> "video", clips |-> ConcatClips(listed, lines)]),
                                PathsOf(e.temp_files) \cup {concat_file}),
                    runs |-> log, response |-> Returned(<<output_path>>)] }
                 \cup
                 { [files |-> Removed(f, PathsOf(e.temp_files)), runs |-> log,
                    response |-> Escaped("ffmpeg.Error")]
                   : f \in FailedOutputs(listed, output_path) }
         : e \in ExtractSegments(fs, video_path, segments, <<>>) }

\* mutant: trim_video_segments without the branch for a single segment
trim_video_segments_noFastPath(fs, video_path, segments) ==
    IF segments = <<>>
    THEN { [files |-> fs.files, runs |-> fs.runs, response |-> Returned(<<video_path>>)] }
    ELSE MultiSegment(fs, video_path, SortByStart(segments))

\* trim_video_segments
trim_video_segments(fs, video_path, segments) ==
    IF segments = <<>>
    THEN { [files |-> fs.files, runs |-> fs.runs, response |-> Returned(<<video_path>>)] }
    ELSE LET sorted == SortByStart(segments)
         IN IF Len(sorted) = 1
            THEN trim_video(fs, video_path, sorted[1].startTime,
                            sorted[1].startTime + sorted[1].duration)
            ELSE MultiSegment(fs, video_path, sorted)

\* ------------------------------------------------------------------ requests
\* versions and snapshot ids a request may name
Versions == 1..MaxId
TimelineIds == 1..MaxId

\* bodies of an Update request: only the fields that are not None
UpdateRequests ==
    { [description |-> "edited"],
      [timeline_state |-> TimelineState([playhead_time |-> 5])] }

\* ------------------------------------------------------------------ Spec
\* the calls that wrote so far: each left one audit entry, a Restore two (the
\* view of its get_timeline_state_by_version and its own)
Calls(logs) ==
    Len(logs) - Cardinality({ i \in 1..Len(logs) :
                                /\ logs[i].action = "update"
                                /\ "action" \in DOMAIN logs[i].details })

Idle == [pc |-> "idle", op |-> "none", response |-> [status |-> "none", value |-> <<>>]]

Tasks == {1, 2}

Init ==
    /\ timeline_states = {}
    /\ projects = InitProjects
    /\ audit_logs = <<>>
    /\ next_id = 1
    /\ now = 0
    /\ task = [k \in Tasks |-> Idle]
    /\ files = InitFiles
    /\ runs = <<>>

\* a handler ran to completion with outcome o (within the bounds of the model).
\* A call that returns early or raises before its first write leaves every
\* collection as it was: it is a stuttering step, not a step of the action.
Apply(o) ==
    /\ o.now # now
    /\ Calls(audit_logs) < MaxCalls
    /\ o.next_id <= MaxId + 1
    /\ timeline_states' = o.timeline_states
    /\ audit_logs' = o.audit_logs
    /\ next_id' = o.next_id
    /\ now' = o.now
    /\ UNCHANGED <<projects, files, runs, task>>

Save ==
    \E p \in ProjectIds, u \in UserIds, m \in TimelineStates, d \in Descriptions :
        \E o \in save_timeline_state(Store, p, u, m, d, None) : Apply(o)

GetCurrent ==
    \E p \in ProjectIds, u \in UserIds :
        \E o \in get_current_timeline_state(Store, p, u) : Apply(o)

GetByVersion ==
    \E p \in ProjectIds, v \in Versions, u \in UserIds :
        \E o \in get_timeline_state_by_version(Store, p, v, u) : Apply(o)

Update ==
    \E id \in TimelineIds, r \in UpdateRequests, u \in UserIds :
        \E o \in update_timeline_state(Store, id, r, u) : Apply(o)

Restore ==
    \E p \in ProjectIds, v \in Versions, u \in UserIds :
        \E o \in restore_timeline_state(Store, p, v, u) : Apply(o)

Delete ==
    \E id \in TimelineIds, u \in UserIds :
        \E o \in delete_timeline_state(Store, id, u) : Apply(o)

Next == Save \/ GetCurrent \/ GetByVersion \/ Update \/ Restore \/ Delete

Spec == Init /\ [][Next]_vars

\* ------------------------------------------------------------------ SpecProject
\* The requests of Spec and the soft delete, hard delete and restore of
\* projects.

\* a handler of the project service ran to completion with outcome o
ApplyProject(o) ==
    /\ o.now # now
    /\ Calls(audit_logs) < MaxCalls
    /\ projects' = o.projects
    /\ audit_logs' = o.audit_logs
    /\ now' = o.now
    /\ UNCHANGED <<timeline_states, next_id, files, runs, task>>

DeleteProject ==
    \E p \in ProjectIds, u \in UserIds, hard_delete \in BOOLEAN :
        \E o \in delete_project(Store, p, u, hard_delete) : ApplyProject(o)

RestoreProject ==
    \E p \in ProjectIds, u \in UserIds :
        \E o \in restore_project(Store, p, u) : ApplyProject(o)

NextProject == Next \/ DeleteProject \/ RestoreProject

SpecProject == Init /\ [][NextProject]_vars

\* ------------------------------------------------------------------ SpecConc
\* Request-handling tasks that interleave at the awaits of the handlers: one
\* action per round trip to the document store.  A task holds the arguments
\* and the local variables of its handler; when the handler returns or raises,
\* the task is idle again and keeps the response it gave.

\* the concurrent requests: one project, a caller with access to it
ConcProjects == {"p1"}
ConcUsers == {"u1"}

\* the unique indexes create_indexes puts on timeline_states: none (the
\* (project_id, version) index is created without unique=True)
UniqueIndexes == {}

\* insert_one would raise DuplicateKeyError for doc
DuplicateKey(coll, doc) ==
    /\ <<"project_id", "version">> \in UniqueIndexes
    /\ \E d \in coll : d.project_id = doc.project_id /\ d.version = doc.version

InFlight == { k \in Tasks : task[k].pc # "idle" }

\* a task may take a new request (within the bounds of the model)
MayStart(k) ==
    /\ task[k].pc = "idle"
    /\ Calls(audit_logs) + Cardinality(InFlight) < MaxCalls

\* the handler of task k returns or raises
Done(k, op, resp) ==
    task' = [task EXCEPT ![k] = [pc |-> "idle", op |-> op, response |-> resp]]

Goto(k, pc, locals) ==
    task' = [task EXCEPT ![k] =
                [f \in DOMAIN task[k] \cup DOMAIN locals |->
                    IF f = "pc" THEN pc
                    ELSE IF f \in DOMAIN locals THEN locals[f] ELSE task[k][f]]]

\* save_timeline_state: the request arrives, _validate_project_access
SaveStart(k) ==
    /\ MayStart(k)
    /\ next_id + Cardinality({ j \in InFlight : task[j].op = "save" }) <= MaxId
    /\ \E p \in ConcProjects, u \in ConcUsers, m \in TimelineStates :
          IF ~validate_project_access(Store, p, u)
          THEN Done(k, "save", AccessDenied)
          ELSE task' = [task EXCEPT ![k] =
                    [pc |-> "save_unset", op |-> "save", project_id |-> p,
                     user_id |-> u, model |-> m]]
    /\ UNCHANGED <<timeline_states, projects, files, runs, audit_logs, next_id, now>>

\* save_timeline_state: update_many marks the previous states not current
SaveUnset(k) ==
    /\ task[k].pc = "save_unset"
    /\ timeline_states' = UnsetCurrent(timeline_states, task[k].project_id, now)
    /\ now' = now + 1
    /\ Goto(k, "save_find", <<>>)
    /\ UNCHANGED <<projects, files, runs, audit_logs, next_id>>

\* save_timeline_state: find_one of the latest state gives next_version
SaveFindLatest(k) ==
    /\ task[k].pc = "save_find"
    /\ Goto(k, "save_insert",
            [next_version |-> NextVersion(timeline_states, task[k].project_id)])
    /\ UNCHANGED <<timeline_states, projects, files, runs, audit_logs, next_id, now>>

\* save_timeline_state: insert_one of the new document
SaveInsert(k) ==
    /\ task[k].pc = "save_insert"
    /\ LET doc == TimelineDoc(next_id, task[k].project_id, task[k].model,
                              task[k].next_version, None, None, task[k].user_id, now)
       IN IF DuplicateKey(timeline_states, doc)
          THEN /\ Done(k, "save", Raised("DuplicateKeyError", "duplicate key"))
               /\ UNCHANGED <<timeline_states, next_id, now>>
          ELSE /\ timeline_states' = timeline_states \cup {doc}
               /\ next_id' = next_id + 1
               /\ now' = now + 1
               /\ Goto(k, "save_audit", [doc |-> doc])
    /\ UNCHANGED <<projects, files, runs, audit_logs>>

\* save_timeline_state: _create_audit_log, then the document is returned
SaveAudit(k) ==
    /\ task[k].pc = "save_audit"
    /\ audit_logs' = create_audit_log(audit_logs, task[k].user_id, "create",
            task[k].doc.id,
            [project_id |-> task[k].project_id, version |-> task[k].next_version,
             description |-> None], now)
    /\ now' = now + 1
    /\ Done(k, "save", Returned(<<TimelineStateDocument(task[k].doc)>>))
    /\ UNCHANGED <<timeline_states, projects, files, runs, next_id>>

\* get_current_timeline_state: the request arrives, _validate_project_access
GetCurrentStart(k) ==
    /\ MayStart(k)
    /\ \E p \in ConcProjects, u \in ConcUsers :
          IF ~validate_project_access(Store, p, u)
          THEN Done(k, "get_current", AccessDenied)
          ELSE task' = [task EXCEPT ![k] =
                    [pc |-> "current_find", op |-> "get_current", project_id |-> p,
                     user_id |-> u]]
    /\ UNCHANGED <<timeline_states, projects, files, runs, audit_logs, next_id, now>>

\* get_current_timeline_state: find_one of the current state; None is returned at once
GetCurrentFind(k) ==
    /\ task[k].pc = "current_find"
    /\ IF FindCurrent(timeline_states, task[k].project_id) = {}
       THEN Done(k, "get_current", Returned(<<>>))
       ELSE \E doc \in FindCurrent(timeline_states, task[k].project_id) :
               Goto(k, "current_audit", [doc |-> doc])
    /\ UNCHANGED <<timeline_states, projects, files, runs, audit_logs, next_id, now>>

\* get_current_timeline_state: _create_audit_log, then the document is returned
GetCurrentAudit(k) ==
    /\ task[k].pc = "current_audit"
    /\ audit_logs' = create_audit_log(audit_logs, task[k].user_id, "view",
            task[k].doc.id, [project_id |-> task[k].project_id], now)
    /\ now' = now + 1
    /\ Done(k, "get_current", Returned(<<TimelineStateDocument(task[k].doc)>>))
    /\ UNCHANGED <<timeline_states, projects, files, runs, next_id>>

\* restore_timeline_state: the request arrives, _validate_project_access (its
\* own and the one of get_timeline_state_by_version)
RestoreStart(k) ==
    /\ MayStart(k)
    /\ \E p \in ConcProjects, v \in Versions, u \in ConcUsers :
          IF ~validate_project_access(Store, p, u)
          THEN Done(k, "restore", AccessDenied)
          ELSE task' = [task EXCEPT ![k] =
                    [pc |-> "restore_find", op |-> "restore", project_id |-> p,
                     version |-> v, user_id |-> u]]
    /\ UNCHANGED <<timeline_states, projects, files, runs, audit_logs, next_id, now>>

\* get_timeline_state_by_version within Restore: find_one; None is returned at once
RestoreFind(k) ==
    /\ task[k].pc = "restore_find"
    /\ IF FindVersion(timeline_states, task[k].project_id, task[k].version) = {}
       THEN Done(k, "restore", Returned(<<>>))
       ELSE \E doc \in FindVersion(timeline_states, task[k].project_id, task[k].version) :
               Goto(k, "restore_view", [timeline_to_restore |-> TimelineStateDocument(doc)])
    /\ UNCHANGED <<timeline_states, projects, files, runs, audit_logs, next_id, now>>

\* get_timeline_state_by_version within Restore: _create_audit_log
RestoreView(k) ==
    /\ task[k].pc = "restore_view"
    /\ audit_logs' = create_audit_log(audit_logs, task[k].user_id, "view",
            task[k].timeline_to_restore.id,
            [project_id |-> task[k].project_id, version |-> task[k].version], now)
    /\ now' = now + 1
    /\ Goto(k, "restore_unset", <<>>)
    /\ UNCHANGED <<timeline_states, projects, files, runs, next_id>>

\* restore_timeline_state: update_many marks all current states not current
RestoreUnset(k) ==
    /\ task[k].pc = "restore_unset"
    /\ timeline_states' = UnsetCurrent(timeline_states, task[k].project_id, now)
    /\ now' = now + 1
    /\ Goto(k, "restore_set", <<>>)
    /\ UNCHANGED <<projects, files, runs, audit_logs, next_id>>

\* restore_timeline_state: update_one marks the restored state current;
\* modified_count == 0 raises OperationError
RestoreSet(k) ==
    /\ task[k].pc = "restore_set"
    /\ LET upd == [is_current |-> TRUE, updated_at |-> now]
       IN IF ModifiedCount(timeline_states, task[k].timeline_to_restore.id, upd) = 0
          THEN /\ Done(k, "restore", Raised("OperationError", "Failed to restore timeline state"))
               /\ UNCHANGED timeline_states
          ELSE /\ timeline_states' =
                      UpdateOne(timeline_states, task[k].timeline_to_restore.id, upd)
               /\ Goto(k, "restore_audit", <<>>)
    /\ now' = now + 1
    /\ UNCHANGED <<projects, files, runs, audit_logs, next_id>>

\* restore_timeline_state: _create_audit_log, then timeline_to_restore is returned
RestoreAudit(k) ==
    /\ task[k].pc = "restore_audit"
    /\ audit_logs' = create_audit_log(audit_logs, task[k].user_id, "update",
            task[k].timeline_to_restore.id,
            [action |-> "restore", project_id |-> task[k].project_id,
             version |-> task[k].version], now)
    /\ now' = now + 1
    /\ Done(k, "restore", Returned(<<task[k].timeline_to_restore>>))
    /\ UNCHANGED <<timeline_states, projects, files, runs, next_id>>

\* delete_timeline_state: the request arrives, find_one of the state,
\* _validate_project_access, the check of is_current
DeleteStart(k) ==
    /\ MayStart(k)
    /\ \E id \in TimelineIds, u \in ConcUsers :
          IF FindId(timeline_states, id) = {}
          THEN Done(k, "delete", Returned(<<Bool(FALSE)>>))
          ELSE LET existing == CHOOSE d \in FindId(timeline_states, id) : TRUE
               IN IF ~validate_project_access(Store, existing.project_id, u)
                  THEN Done(k, "delete", AccessDenied)
                  ELSE IF existing.is_current
                  THEN Done(k, "delete", Raised("ValidationError",
                                      "Cannot delete current timeline state"))
                  ELSE task' = [task EXCEPT ![k] =
                            [pc |-> "delete_one", op |-> "delete", timeline_id |-> id,
                             user_id |-> u, existing |-> existing]]
    /\ UNCHANGED <<timeline_states, projects, files, runs, audit_logs, next_id, now>>

\* delete_timeline_state: delete_one; deleted_count == 0 raises OperationError
DeleteDelete(k) ==
    /\ task[k].pc = "delete_one"
    /\ IF FindId(timeline_states, task[k].timeline_id) = {}
       THEN /\ Done(k, "delete", Raised("OperationError", "Failed to delete timeline state"))
            /\ UNCHANGED timeline_states
       ELSE /\ timeline_states' = DeleteOne(timeline_states, task[k].timeline_id)
            /\ Goto(k, "delete_audit", <<>>)
    /\ UNCHANGED <<projects, files, runs, audit_logs, next_id, now>>

\* delete_timeline_state: _create_audit_log, then True is returned
DeleteAudit(k) ==
    /\ task[k].pc = "delete_audit"
    /\ audit_logs' = create_audit_log(audit_logs, task[k].user_id, "delete",
            task[k].timeline_id,
            [project_id |-> task[k].existing.project_id,
             version |-> task[k].existing.version], now)
    /\ now' = now + 1
    /\ Done(k, "delete", Returned(<<Bool(TRUE)>>))
    /\ UNCHANGED <<timeline_states, projects, files, runs, next_id>>

SaveStep == \E k \in Tasks :
    SaveStart(k) \/ SaveUnset(k) \/ SaveFindLatest(k) \/ SaveInsert(k) \/ SaveAudit(k)

GetCurrentStep == \E k \in Tasks :
    GetCurrentStart(k) \/ GetCurrentFind(k) \/ GetCurrentAudit(k)

RestoreStep == \E k \in Tasks :
    \/ RestoreStart(k) \/ RestoreFind(k) \/ RestoreView(k)
    \/ RestoreUnset(k) \/ RestoreSet(k) \/ RestoreAudit(k)

DeleteStep == \E k \in Tasks :
    DeleteStart(k) \/ DeleteDelete(k) \/ DeleteAudit(k)

NextConc == SaveStep \/ GetCurrentStep \/ RestoreStep \/ DeleteStep

SpecConc == Init /\ [][NextConc]_vars

\* ------------------------------------------------------------------ SpecFault
\* One request-handling task whose round trips to the document store may
\* raise.  An exception of a round trip on timeline_states leaves the handler
\* body and reaches retry_database_operation, which re-runs the body or
\* raises; an exception of the insert_one of _create_audit_log is swallowed
\* there.  get_timeline_state_by_version within Restore and
\* get_timeline_state_by_id within Update carry a retry wrapper of their own.

\* the clock value up to which new requests arrive
MaxNow == 4

\* @retry_database_operation(max_retries=3)
max_retries == 3

\* what a round trip to the document store may raise (pymongo.errors)
Faults ==
    {"ConnectionFailure", "ServerSelectionTimeoutError", "NetworkTimeout",
     "DuplicateKeyError", "WriteError", "OperationFailure", "PyMongoError"}

\* the exceptions parameter of retry_database_operation
RetryExceptions ==
    {"RetryableError", "ConnectionFailure", "ServerSelectionTimeoutError",
     "NetworkTimeout"}

\* the task that handles the requests
FaultTasks == {1}

\* attempt of the wrapper of the handler, and of the wrapper of the nested
\* handler (0 in the first run of the body)
Attempt(t) == IF "attempt" \in DOMAIN t THEN t.attempt ELSE 0
Inner(t) == IF "inner" \in DOMAIN t THEN t.inner ELSE 0

\* async_wrapper: e is caught by "except exceptions" before the last attempt
Retries(e, attempt) ==
    /\ e \in RetryExceptions
    /\ attempt # max_retries

\* update_timeline_state: the request arrives, find_one of the state,
\* _validate_project_access
UpdateStart(k) ==
    /\ MayStart(k)
    /\ \E id \in TimelineIds, r \in UpdateRequests, u \in ConcUsers :
          IF FindId(timeline_states, id) = {}
          THEN Done(k, "update", Returned(<<>>))
          ELSE LET existing == CHOOSE d \in FindId(timeline_states, id) : TRUE
               IN IF ~validate_project_access(Store, existing.project_id, u)
                  THEN Done(k, "update", AccessDenied)
                  ELSE task' = [task EXCEPT ![k] =
                            [pc |-> "update_set", op |-> "update", timeline_id |-> id,
                             req |-> r, user_id |-> u]]
    /\ UNCHANGED <<timeline_states, projects, files, runs, audit_logs, next_id, now>>

\* update_timeline_state: update_one; modified_count == 0 raises OperationError
UpdateSet(k) ==
    /\ task[k].pc = "update_set"
    /\ LET update_data == UpdateData(task[k].req, now)
       IN IF ModifiedCount(timeline_states, task[k].timeline_id, update_data) = 0
          THEN /\ Done(k, "update", Raised("OperationError", "Failed to update timeline state"))
               /\ UNCHANGED timeline_states
          ELSE /\ timeline_states' =
                      UpdateOne(timeline_states, task[k].timeline_id, update_data)
               /\ Goto(k, "update_audit", [update_data |-> update_data])
    /\ now' = now + 1
    /\ UNCHANGED <<projects, files, runs, audit_logs, next_id>>

\* update_timeline_state: _create_audit_log
UpdateAudit(k) ==
    /\ task[k].pc = "update_audit"
    /\ audit_logs' = create_audit_log(audit_logs, task[k].user_id, "update",
            task[k].timeline_id, task[k].update_data, now)
    /\ now' = now + 1
    /\ Goto(k, "update_return", <<>>)
    /\ UNCHANGED <<timeline_states, projects, files, runs, next_id>>

\* get_timeline_state_by_id within Update: find_one, then the document is returned
UpdateReturn(k) ==
    /\ task[k].pc = "update_return"
    /\ IF FindId(timeline_states, task[k].timeline_id) = {}
       THEN Done(k, "update", Returned(<<>>))
       ELSE \E doc \in FindId(timeline_states, task[k].timeline_id) :
               Done(k, "update", Returned(<<TimelineStateDocument(doc)>>))
    /\ UNCHANGED <<timeline_states, projects, files, runs, audit_logs, next_id, now>>

\* get_timeline_state_by_version: the request arrives, _validate_project_access
VersionStart(k) ==
    /\ MayStart(k)
    /\ \E p \in ConcProjects, v \in Versions, u \in ConcUsers :
          IF ~validate_project_access(Store, p, u)
          THEN Done(k, "get_by_version", AccessDenied)
          ELSE task' = [task EXCEPT ![k] =
                    [pc |-> "version_find", op |-> "get_by_version", project_id |-> p,
                     version |-> v, user_id |-> u]]
    /\ UNCHANGED <<timeline_states, projects, files, runs, audit_logs, next_id, now>>

\* get_timeline_state_by_version: find_one; None is returned at once
VersionFind(k) ==
    /\ task[k].pc = "version_find"
    /\ IF FindVersion(timeline_states, task[k].project_id, task[k].version) = {}
       THEN Done(k, "get_by_version", Returned(<<>>))
       ELSE \E doc \in FindVersion(timeline_states, task[k].project_id, task[k].version) :
               Goto(k, "version_audit", [doc |-> doc])
    /\ UNCHANGED <<timeline_states, projects, files, runs, audit_logs, next_id, now>>

\* get_timeline_state_by_version: _create_audit_log, then the document is returned
VersionAudit(k) ==
    /\ task[k].pc = "version_audit"
    /\ audit_logs' = create_audit_log(audit_logs, task[k].user_id, "view",
            task[k].doc.id,
            [project_id |-> task[k].project_id, version |-> task[k].version], now)
    /\ now' = now + 1
    /\ Done(k, "get_by_version", Returned(<<TimelineStateDocument(task[k].doc)>>))
    /\ UNCHANGED <<timeline_states, projects, files, runs, next_id>>

\* the positions before the insert_one of _create_audit_log
AuditPcs ==
    {"save_audit", "current_audit", "restore_view", "restore_audit",
     "delete_audit", "update_audit", "version_audit"}

\* the positions before a round trip on timeline_states
StorePcs ==
    {"save_unset", "save_find", "save_insert", "current_find", "restore_find",
     "restore_unset", "restore_set", "delete_one", "update_set", "update_return",
     "version_find"}

\* the positions inside a nested handler with a retry wrapper of its own
InnerPcs == {"restore_find", "update_return"}

\* where the body of a handler is after its access checks, which give in a
\* re-run what they gave before (no other task writes)
FirstPc(op) ==
    CASE op = "save" -> "save_unset"
      [] op = "get_current" -> "current_find"
      [] op = "restore" -> "restore_find"
      [] op = "delete" -> "delete_one"
      [] op = "update" -> "update_set"
      [] op = "get_by_version" -> "version_find"

\* async_wrapper of the handler of task k catches e, raised for the fault f
\* of the store: it sleeps and re-runs the body, or raises the classified error
Propagate(k, e, f) ==
    IF Retries(e, Attempt(task[k]))
    THEN Goto(k, FirstPc(task[k].op),
              [attempt |-> Attempt(task[k]) + 1, inner |-> 0, fault |-> f])
    ELSE Done(k, task[k].op,
              [status |-> classify_mongodb_error(e), raised |-> f,
               msg |-> "store fault", value |-> <<>>])

\* a round trip on timeline_states raises f instead of running
StoreFault(k) ==
    /\ task[k].pc \in StorePcs
    /\ \E f \in Faults :
          IF task[k].pc \in InnerPcs
          THEN IF Retries(f, Inner(task[k]))
               THEN Goto(k, task[k].pc,
                         [attempt |-> Attempt(task[k]),
                          inner |-> Inner(task[k]) + 1, fault |-> f])
               ELSE Propagate(k, classify_mongodb_error(f), f)
          ELSE Propagate(k, f, f)
    /\ UNCHANGED <<timeline_states, projects, files, runs, audit_logs, next_id, now>>

\* what follows _create_audit_log at every position of AuditPcs
AfterAudit(k) ==
    CASE task[k].pc = "save_audit" ->
            Done(k, "save", Returned(<<TimelineStateDocument(task[k].doc)>>))
      [] task[k].pc = "current_audit" ->
            Done(k, "get_current", Returned(<<TimelineStateDocument(task[k].doc)>>))
      [] task[k].pc = "version_audit" ->
            Done(k, "get_by_version", Returned(<<TimelineStateDocument(task[k].doc)>>))
      [] task[k].pc = "restore_view" -> Goto(k, "restore_unset", <<>>)
      [] task[k].pc = "restore_audit" ->
            Done(k, "restore", Returned(<<task[k].timeline_to_restore>>))
      [] task[k].pc = "delete_audit" -> Done(k, "delete", Returned(<<Bool(TRUE)>>))
      [] task[k].pc = "update_audit" -> Goto(k, "update_return", <<>>)

\* mutant: _create_audit_log without its try/except
AuditFault_propagates(k) ==
    /\ task[k].pc \in AuditPcs
    /\ \E f \in Faults : Propagate(k, f, f)
    /\ UNCHANGED <<timeline_states, projects, files, runs, audit_logs, next_id, now>>

\* the insert_one of _create_audit_log raises: the except clause logs a
\* warning and the handler goes on
AuditFault(k) ==
    /\ task[k].pc \in AuditPcs
    /\ AfterAudit(k)
    /\ UNCHANGED <<timeline_states, projects, files, runs, audit_logs, next_id, now>>

\* a request arrives
FaultStart(k) ==
    /\ now < MaxNow
    /\ \/ SaveStart(k) \/ GetCurrentStart(k) \/ VersionStart(k)
       \/ UpdateStart(k) \/ RestoreStart(k) \/ DeleteStart(k)

\* the handler in flight goes on with a round trip that does not raise
Continue(k) ==
    \/ SaveUnset(k) \/ SaveFindLatest(k) \/ SaveInsert(k) \/ SaveAudit(k)
    \/ GetCurrentFind(k) \/ GetCurrentAudit(k)
    \/ VersionFind(k) \/ VersionAudit(k)
    \/ UpdateSet(k) \/ UpdateAudit(k) \/ UpdateReturn(k)
    \/ RestoreFind(k) \/ RestoreView(k) \/ RestoreUnset(k) \/ RestoreSet(k)
    \/ RestoreAudit(k)
    \/ DeleteDelete(k) \/ DeleteAudit(k)

Arrive == \E k \in FaultTasks : FaultStart(k)

Proceed == \E k \in FaultTasks : Continue(k)

Fail == \E k \in FaultTasks : StoreFault(k)

AuditFail == \E k \in FaultTasks : AuditFault(k)

NextFault == Arrive \/ Proceed \/ Fail \/ AuditFail

SpecFault == Init /\ [][NextFault]_vars

\* the event loop runs a handler in flight to its end; no request has to
\* arrive and no round trip has to raise
SpecRecover == SpecFault /\ WF_vars(Proceed)

\* ------------------------------------------------------------------ SpecCompile
\* Compile requests, one at a time: trim_video_segments runs to its end.

\* a compile ran to completion with outcome o
Compile ==
    \E video_path \in Videos, segments \in SegmentLists :
        /\ Len(runs) < MaxRuns
        /\ \E o \in trim_video_segments(FS, video_path, segments) :
              /\ files' = o.files
              /\ runs' = o.runs
              /\ task' = [task EXCEPT ![1] =
                            [pc |-> "idle", op |-> "compile", response |-> o.response,
                             video_path |-> video_path, segments |-> segments]]
        /\ UNCHANGED <<timeline_states, projects, audit_logs, next_id, now>>

NextCompile == Compile

SpecCompile == Init /\ [][NextCompile]_vars

\* ------------------------------------------------------------------ SpecTrim
\* The route trim_video, one step per transcoder invocation or file
\* operation of trim_video_segments.  The route is a coroutine that calls
\* the compiler without await: inside one server process nothing else runs
\* until the compiler returns.  A task is here a server process; the
\* processes share the media directory, which the code neither locks nor
\* divides among them.

\* the server processes
TrimTasks == {1, 2}

\* the segment lists of their requests
TrimSegmentLists ==
    UNION { [1..n -> { g \in Segments : g.duration > 0 /\ g.startTime >= 0 }]
            : n \in 0..MaxSegments }

\* the task goes on in the same request
TrimGoto(k, pc, locals) ==
    task' = [task EXCEPT ![k] =
                [f \in DOMAIN task[k] |->
                    IF f = "pc" THEN pc
                    ELSE IF f \in DOMAIN locals THEN locals[f] ELSE task[k][f]]]

\* the route returns or raises; the record keeps the request it handled
TrimDone(k, resp) == TrimGoto(k, "idle", [response |-> resp])

\* except Exception as e: raise HTTPException(status_code=500, ...)
RouteError(kind) ==
    [status |-> "HTTPException", raised |-> kind, msg |-> "Failed to trim video",
     value |-> <<>>]

\* the route up to the call of the compiler, and trim_video_segments up to
\* its first transcoder invocation
TrimStart(k) ==
    /\ task[k].pc = "idle"
    /\ Len(runs) < MaxRuns
    /\ \E video_path \in TrimVideos, segments \in TrimSegmentLists :
          LET sorted == SortByStart(segments)
          IN task' = [task EXCEPT ![k] =
                 [pc |-> IF segments = <<>> THEN "update"
                         ELSE IF Len(sorted) = 1 THEN "trim" ELSE "extract",
                  op |-> "trim_video", response |-> Idle.response,
                  video_path |-> video_path, request |-> segments,
                  segments |-> sorted, temp_files |-> <<>>,
                  trimmed_path |-> video_path,
                  cancelled |-> FALSE, cancelled_at |-> "none"]]
    /\ UNCHANGED <<timeline_states, projects, files, runs, audit_logs, next_id, now>>

\* trim_video: the extract of the single segment
TrimExtract(k) ==
    /\ task[k].pc = "trim"
    /\ LET t == task[k]
           segment == t.segments[1]
           output_path == Join(processed_dir, <<"trimmed_">> \o basename(t.video_path))
       IN /\ runs' = Append(runs, ExtractRun(t.video_path, segment.startTime,
                        (segment.startTime + segment.duration) - segment.startTime,
                        output_path))
          /\ \/ /\ t.video_path \in DOMAIN files
                /\ files' = Written(files, output_path,
                                Clip(t.video_path, segment.startTime, segment.duration))
                /\ TrimGoto(k, "update", [trimmed_path |-> output_path])
             \/ /\ files' \in FailedOutputs(files, output_path)
                /\ TrimDone(k, RouteError("ffmpeg.Error"))
    /\ UNCHANGED <<timeline_states, projects, audit_logs, next_id, now>>

\* one turn of the for loop: the extract of segment Len(temp_files)
SegmentExtract(k) ==
    /\ task[k].pc = "extract"
    /\ LET t == task[k]
           i == Len(t.temp_files)
           segment == t.segments[i + 1]
           temp_path == Join(processed_dir,
               <<"temp_segment_", ToString(i), "_">> \o basename(t.video_path))
       IN /\ runs' = Append(runs, ExtractRun(t.video_path, segment.startTime,
                                             segment.duration, temp_path))
          /\ \/ /\ t.video_path \in DOMAIN files
                /\ files' = Written(files, temp_path,
                                Clip(t.video_path, segment.startTime, segment.duration))
                /\ TrimGoto(k, IF i + 1 = Len(t.segments) THEN "list" ELSE "extract",
                            [temp_files |-> Append(t.temp_files, temp_path)])
             \/ /\ files' \in FailedOutputs(files, temp_path)
                /\ TrimGoto(k, "except", << >>)
    /\ UNCHANGED <<timeline_states, projects, audit_logs, next_id, now>>

\* with open(concat_file, 'w') as f: one line per temp file
WriteList(k) ==
    /\ task[k].pc = "list"
    /\ LET t == task[k]
       IN files' = Written(files, Join(processed_dir, <<"concat_list.txt">>),
                      [kind |-> "list",
                       lines |-> [j \in 1..Len(t.temp_files) |-> abspath(t.temp_files[j])]])
    /\ TrimGoto(k, "concat", << >>)
    /\ UNCHANGED <<timeline_states, projects, runs, audit_logs, next_id, now>>

\* the transcoder can read the concat list and every file it names
Concatenable(dir, concat_file) ==
    /\ concat_file \in DOMAIN dir
    /\ dir[concat_file].kind = "list"
    /\ \A line \in PathsOf(dir[concat_file].lines) :
          /\ Resolve(line) \in DOMAIN dir
          /\ dir[Resolve(line)].kind = "video"

\* the concat run
Concat(k) ==
    /\ task[k].pc = "concat"
    /\ LET t == task[k]
           output_path == Join(processed_dir, <<"segments_">> \o basename(t.video_path))
           concat_file == Join(processed_dir, <<"concat_list.txt">>)
       IN /\ runs' = Append(runs, ConcatRun(concat_file, output_path))
          /\ \/ /\ Concatenable(files, concat_file)
                /\ files' = Written(files, output_path,
                                [kind |-> "video",
                                 clips |-> ConcatClips(files, files[concat_file].lines)])
                /\ TrimGoto(k, "cleanup", [trimmed_path |-> output_path])
             \/ /\ files' \in FailedOutputs(files, output_path)
                /\ TrimGoto(k, "except", << >>)
    /\ UNCHANGED <<timeline_states, projects, audit_logs, next_id, now>>

\* the cleanup after the concat run, and the return to the route
Cleanup(k) ==
    /\ task[k].pc = "cleanup"
    /\ files' = Removed(files, PathsOf(task[k].temp_files)
                                 \cup {Join(processed_dir, <<"concat_list.txt">>)})
    /\ TrimGoto(k, "update", << >>)
    /\ UNCHANGED <<timeline_states, projects, runs, audit_logs, next_id, now>>

\* the cleanup on error; the exception leaves the compiler and the route
\* turns it into an HTTP error
Except(k) ==
    /\ task[k].pc = "except"
    /\ files' = Removed(files, PathsOf(task[k].temp_files))
    /\ TrimDone(k, RouteError("ffmpeg.Error"))
    /\ UNCHANGED <<timeline_states, projects, runs, audit_logs, next_id, now>>

\* mutant: a cancellation is delivered wherever the request is
UpdateProject_cancelAnywhere(k) ==
    /\ task[k].pc \notin {"idle"}
    /\ IF task[k].cancelled
       THEN TrimDone(k, [status |-> "CancelledError", raised |-> "CancelledError",
                         msg |-> "", value |-> <<>>])
       ELSE /\ task[k].pc = "update"
            /\ TrimDone(k, Returned(<<task[k].trimmed_path>>))
    /\ UNCHANGED <<timeline_states, projects, files, runs, audit_logs, next_id, now>>

\* get_video_duration and await project_service.update_project, the first
\* await after the compiler returned: a cancellation requested since the
\* route started is delivered here.  The fields update_project writes
\* (trimmed_video_path, trimmed_duration) are not fields of the project
\* documents of this model.
UpdateProject(k) ==
    /\ task[k].pc = "update"
    /\ IF task[k].cancelled
       THEN TrimDone(k, [status |-> "CancelledError", raised |-> "CancelledError",
                         msg |-> "", value |-> <<>>])
       ELSE TrimDone(k, Returned(<<task[k].trimmed_path>>))
    /\ UNCHANGED <<timeline_states, projects, files, runs, audit_logs, next_id, now>>

\* the request of task k is cancelled: the cancellation is recorded and
\* raised at the next await of the coroutine
Cancel(k) ==
    /\ task[k].pc # "idle"
    /\ ~task[k].cancelled
    /\ TrimGoto(k, task[k].pc, [cancelled |-> TRUE, cancelled_at |-> task[k].pc])
    /\ UNCHANGED <<timeline_states, projects, files, runs, audit_logs, next_id, now>>

\* the steps of a request in flight
TrimStep(k) ==
    \/ TrimExtract(k) \/ SegmentExtract(k) \/ WriteList(k) \/ Concat(k)
    \/ Cleanup(k) \/ Except(k) \/ UpdateProject(k)

TrimArrive == \E k \in TrimTasks : TrimStart(k)

TrimProceed == \E k \in TrimTasks : TrimStep(k)

NextTrim == TrimArrive \/ TrimProceed

\* two server processes compile on one media directory
SpecTrim == Init /\ [][NextTrim]_vars

\* one server process, whose request may be cancelled
CancelTasks == {1}

CancelArrive == \E k \in CancelTasks : TrimStart(k)

CancelProceed == \E k \in CancelTasks : TrimStep(k)

CancelRequest == \E k \in CancelTasks : Cancel(k)

NextCancel == CancelArrive \/ CancelProceed \/ CancelRequest

SpecCancel == Init /\ [][NextCancel]_vars

\* ------------------------------------------------------------------ vocabulary of the claims
\* callers in UserIds that the access check lets through
MayUse(project_id, user_id) == validate_project_access(Store, project_id, user_id)

\* the snapshots of a project flagged current
CurrentOf(coll, project_id) ==
    { d \in coll : d.project_id = project_id /\ d.is_current }

\* the highest version stored for a project, 0 when it has no snapshot
HighestVersion(coll, project_id) ==
    IF \A d \in coll : d.project_id # project_id THEN 0
    ELSE CHOOSE n \in { d.version : d \in { e \in coll : e.project_id = project_id } } :
            \A d \in coll : d.project_id = project_id => d.version <= n

\* the audit entries of successful Saves on a project
CreateEntries(logs, project_id) ==
    { i \in 1..Len(logs) :
        logs[i].action = "create" /\ logs[i].details.project_id = project_id }

\* is entry e the audit entry of a Restore
IsRestoreEntry(e) ==
    /\ e.action = "update"
    /\ "action" \in DOMAIN e.details
    /\ e.details.action = "restore"

\* a snapshot without the two fields a Restore may write
Unflagged(d) == [f \in DOMAIN d \ {"is_current", "updated_at"} |-> d[f]]

\* the is_current flag of every snapshot
Flags(coll) == { <<d.id, d.is_current>> : d \in coll }

\* the audit entries a call appended, without their timestamps
Appended(before, after) ==
    [i \in 1..(Len(after) - Len(before)) |->
        [f \in DOMAIN after[Len(before) + i] \ {"created_at"} |->
            after[Len(before) + i][f]]]

\* ------------------------------------------------------------------ claims
\* C1: under any interleaving of the store steps of concurrent Save and
\* Restore requests on a project, no state has two or more snapshots of the
\* project with is_current = true.
C1_AtMostOneCurrent ==
    \A p \in ProjectIds : Cardinality(CurrentOf(timeline_states, p)) <= 1

\* C2: the find_one of a GetCurrent on a project that has had a current
\* snapshot (it has a stored snapshot) never finds no current snapshot,
\* whatever Save or Restore is in progress.
C2_LookupFindsCurrent ==
    [][ \A k \in Tasks :
          ( /\ task[k].pc = "current_find"
            /\ task'[k].pc # "current_find"
            /\ \E d \in timeline_states : d.project_id = task[k].project_id )
          => task'[k].pc = "current_audit" ]_vars

\* C3: concurrent Saves never compute the same next_version: no two snapshots
\* of one project carry the same version.
C3_VersionsDistinct ==
    \A d, e \in timeline_states :
        (d.project_id = e.project_id /\ d.version = e.version) => d.id = e.id

\* C4: versions are never reused: every successful Save returns a version
\* strictly greater than every version a Save assigned earlier in the project
\* (the audit log keeps every assignment), deleted snapshots included.
C4_VersionsNeverReused ==
    \A p \in ProjectIds, u \in UserIds, m \in TimelineStates :
        MayUse(p, u) =>
            \A o \in save_timeline_state(Store, p, u, m, None, None) :
                \A i \in CreateEntries(audit_logs, p) :
                    o.response.value[1].version > audit_logs[i].details.version

\* C5: in a sequential history, from the first successful Save on a project
\* onward, exactly one snapshot of the project is current after every
\* completed operation.
C5_ExactlyOneCurrent ==
    \A p \in ProjectIds :
        CreateEntries(audit_logs, p) # {} =>
            Cardinality(CurrentOf(timeline_states, p)) = 1

C5_Witness ==
    /\ \E i \in 1..Len(audit_logs) : audit_logs[i].action = "delete"
    /\ \E i \in 1..Len(audit_logs) : IsRestoreEntry(audit_logs[i])
    /\ \E p \in ProjectIds : Cardinality(CurrentOf(timeline_states, p)) = 1

\* C6: a Save on a project whose highest version is N (0 without snapshots)
\* returns a snapshot with version N+1 and is_current = true, stores it, and
\* leaves every snapshot that was current before with is_current = false.
C6_SaveNextVersion ==
    \A p \in ProjectIds, u \in UserIds, m \in TimelineStates :
        MayUse(p, u) =>
            \A o \in save_timeline_state(Store, p, u, m, None, None) :
                /\ o.response.status = "ok"
                /\ o.response.value[1].version = HighestVersion(timeline_states, p) + 1
                /\ o.response.value[1].is_current
                /\ CurrentOf(o.timeline_states, p)
                     = { d \in o.timeline_states : d.id = o.response.value[1].id }
                /\ \A d \in CurrentOf(timeline_states, p) :
                      \E e \in o.timeline_states : e.id = d.id /\ ~e.is_current

C6_Witness ==
    /\ audit_logs # <<>>
    /\ audit_logs[Len(audit_logs)].action = "create"
    /\ audit_logs[Len(audit_logs)].details.version = 2
    /\ \E d, e \in timeline_states :
          /\ d.project_id = e.project_id
          /\ d.version = 1 /\ ~d.is_current
          /\ e.version = 2 /\ e.is_current

\* C7: Restore(project, v) on an existing version creates no snapshot and no
\* version: the snapshots are the same but for is_current and updated_at, the
\* snapshot at v is the only current one, and GetCurrent returns the
\* timeline_state stored at v.
C7_RestoreFlipsFlagOnly ==
    \A p \in ProjectIds, v \in Versions, u \in UserIds :
        (MayUse(p, u) /\ \E d \in timeline_states : d.project_id = p /\ d.version = v) =>
            \A o \in restore_timeline_state(Store, p, v, u) :
                /\ o.response.status = "ok"
                /\ o.next_id = next_id
                /\ { Unflagged(d) : d \in o.timeline_states }
                     = { Unflagged(d) : d \in timeline_states }
                /\ Cardinality(o.timeline_states) = Cardinality(timeline_states)
                /\ Cardinality(CurrentOf(o.timeline_states, p)) = 1
                /\ \A d \in CurrentOf(o.timeline_states, p) : d.version = v
                /\ \A g \in get_current_timeline_state(o, p, u) :
                      /\ g.response.status = "ok"
                      /\ g.response.value # <<>>
                      /\ \E d \in timeline_states :
                            /\ d.project_id = p /\ d.version = v
                            /\ g.response.value[1].timeline_state
                                 = TimelineState(d.timeline_state)

C7_Witness ==
    /\ audit_logs # <<>>
    /\ IsRestoreEntry(audit_logs[Len(audit_logs)])
    /\ \E d, e \in timeline_states :
          /\ d.project_id = e.project_id
          /\ d.version < e.version
          /\ d.is_current /\ ~e.is_current
          /\ d.version = audit_logs[Len(audit_logs)].details.version
          /\ d.timeline_state # e.timeline_state

\* C8: Restore(project, v) twice in a row: both calls succeed, the second
\* leaves every is_current flag as the first left it, and it appends the same
\* audit entries (timestamps aside) as the first.
C8_RestoreIdempotent ==
    \A p \in ProjectIds, v \in Versions, u \in UserIds :
        (MayUse(p, u) /\ \E d \in timeline_states : d.project_id = p /\ d.version = v) =>
            \A o1 \in restore_timeline_state(Store, p, v, u) :
                \A o2 \in restore_timeline_state(o1, p, v, u) :
                    /\ o1.response.status = "ok" /\ o1.response.value # <<>>
                    /\ o2.response.status = "ok" /\ o2.response.value # <<>>
                    /\ Flags(o2.timeline_states) = Flags(o1.timeline_states)
                    /\ Appended(o1.audit_logs, o2.audit_logs)
                         = Appended(audit_logs, o1.audit_logs)
                    /\ Len(o2.audit_logs) = Len(o1.audit_logs) + 2

C8_Witness ==
    /\ Len(audit_logs) >= 4
    /\ IsRestoreEntry(audit_logs[Len(audit_logs)])
    /\ IsRestoreEntry(audit_logs[Len(audit_logs) - 2])
    /\ Appended(SubSeq(audit_logs, 1, Len(audit_logs) - 2), audit_logs)
         = Appended(SubSeq(audit_logs, 1, Len(audit_logs) - 4),
                    SubSeq(audit_logs, 1, Len(audit_logs) - 2))

\* C9: Delete of a current snapshot is refused and removes nothing; once a
\* Restore has made another version current, Delete of that snapshot succeeds,
\* the snapshot is no longer retrievable, and the other version stays the sole
\* current one.
C9_DeleteOnlyNonCurrent ==
    \A d \in timeline_states, u \in UserIds :
        (MayUse(d.project_id, u) /\ d.is_current) =>
            /\ \A o \in delete_timeline_state(Store, d.id, u) :
                  /\ o.response.status # "ok"
                  /\ o.timeline_states = timeline_states
                  /\ o.audit_logs = audit_logs
            /\ \A e \in timeline_states :
                  (e.project_id = d.project_id /\ e.version # d.version) =>
                      \A o1 \in restore_timeline_state(Store, d.project_id, e.version, u) :
                          \A o2 \in delete_timeline_state(o1, d.id, u) :
                              /\ o2.response = Returned(<<Bool(TRUE)>>)
                              /\ \A x \in o2.timeline_states : x.id # d.id
                              /\ \A g \in get_timeline_state_by_id(o2, d.id, u) :
                                    g.response = Returned(<<>>)
                              /\ \A g \in get_timeline_state_by_version(
                                              o2, d.project_id, d.version, u) :
                                    g.response = Returned(<<>>)
                              /\ Cardinality(CurrentOf(o2.timeline_states, d.project_id)) = 1
                              /\ \A x \in CurrentOf(o2.timeline_states, d.project_id) :
                                    x.id = e.id

C9_Witness ==
    /\ Len(audit_logs) >= 3
    /\ audit_logs[Len(audit_logs)].action = "delete"
    /\ IsRestoreEntry(audit_logs[Len(audit_logs) - 1])
    /\ LET del == audit_logs[Len(audit_logs)]
           res == audit_logs[Len(audit_logs) - 1]
       IN /\ del.details.project_id = res.details.project_id
          /\ \A x \in timeline_states : x.id # del.resource_id
          /\ \E x \in CurrentOf(timeline_states, res.details.project_id) :
                x.id = res.resource_id

\* C10: round trip: GetByVersion of the version a Save of S returned gives a
\* timeline_state equal to S, and no later Save or Restore on the project
\* changes what GetByVersion gives for a version that is already stored.
C10_SaveGetRoundTrip ==
    \A p \in ProjectIds, u \in UserIds :
        MayUse(p, u) =>
            /\ \A m \in TimelineStates :
                  \A o \in save_timeline_state(Store, p, u, m, None, None) :
                      \A g \in get_timeline_state_by_version(
                                  o, p, o.response.value[1].version, u) :
                          /\ g.response.status = "ok"
                          /\ g.response.value # <<>>
                          /\ g.response.value[1].timeline_state = m
            /\ \A n \in Versions :
                  LET stored(s) ==
                        { g.response.value[1].timeline_state :
                            g \in { h \in get_timeline_state_by_version(s, p, n, u) :
                                      h.response.value # <<>> } }
                  IN stored(Store) # {} =>
                        /\ \A m \in TimelineStates :
                              \A o \in save_timeline_state(Store, p, u, m, None, None) :
                                  stored(o) = stored(Store)
                        /\ \A v \in Versions :
                              \A o \in restore_timeline_state(Store, p, v, u) :
                                  stored(o) = stored(Store)

C10_Witness ==
    \E d, e \in timeline_states :
        /\ d.project_id = e.project_id
        /\ d.version < e.version
        /\ d.timeline_state.playhead_time = 5
        /\ d.timeline_state # e.timeline_state
        /\ \E i \in 1..Len(audit_logs) : IsRestoreEntry(audit_logs[i])

\* the fields of a snapshot that a claim of immutability covers
Frozen(d) ==
    [f \in {"timeline_state", "version", "project_id", "created_by", "created_at"}
        |-> d[f]]

\* C11: a snapshot is immutable once created: no Save, Update, Restore or
\* Delete changes the timeline_state, version, project_id, created_by or
\* created_at of a snapshot that stays stored.
C11_SnapshotImmutable ==
    [][ \A d \in timeline_states : \A e \in timeline_states' :
          e.id = d.id => Frozen(e) = Frozen(d) ]_vars

\* C12: GetCurrent on an accessible project that has never been saved returns
\* a synthesized default snapshot with version 0, empty layers and default
\* scalar fields; returning it persists nothing: the project still has no
\* stored snapshot and the next Save gets version 1.
C12_DefaultSnapshotVersionZero ==
    \A p \in ProjectIds, u \in UserIds :
        (MayUse(p, u) /\ CreateEntries(audit_logs, p) = {}) =>
            \A o \in get_timeline_state(Store, p, u) :
                /\ o.response.status_code = 200
                /\ o.response.data.version = 0
                /\ o.response.data.timeline_state.layers = <<>>
                /\ o.response.data.timeline_state = TimelineStateDefaults
                /\ o.timeline_states = timeline_states
                /\ OfProject(o.timeline_states, p) = {}
                /\ \A m \in TimelineStates :
                      \A o2 \in save_timeline_state(o, p, u, m, None, None) :
                          o2.response.value[1].version = 1

\* C13: a GetCurrent that runs while the project has a stored snapshot but
\* none with is_current = true returns the snapshot with the highest version,
\* not an error and not the empty default.
C13_FallbackToHighestVersion ==
    \A p \in ProjectIds, u \in UserIds :
        ( /\ MayUse(p, u)
          /\ OfProject(timeline_states, p) # {}
          /\ CurrentOf(timeline_states, p) = {} ) =>
            \A o \in get_timeline_state(Store, p, u) :
                /\ o.response.status_code = 200
                /\ \E d \in FindLatest(timeline_states, p) :
                      /\ o.response.data.id = d.id
                      /\ o.response.data.version = d.version
                      /\ o.response.data.timeline_state
                           = TimelineState(d.timeline_state)

\* no handler is in flight and the project has snapshots, none of them current
StoppedWithoutCurrent(p) ==
    /\ \A k \in Tasks : task[k].pc = "idle"
    /\ OfProject(timeline_states, p) # {}
    /\ CurrentOf(timeline_states, p) = {}

\* C14: when a Save or Restore has stopped after its unset-current step and
\* before its insert or set-current step, the project does not stay without
\* a current snapshot: eventually a state with exactly one current snapshot
\* is reached again.
C14_RecoveryPromotes ==
    \A p \in ConcProjects :
        StoppedWithoutCurrent(p) ~> (Cardinality(CurrentOf(timeline_states, p)) = 1)

\* the store as it would be if project p did not exist
WithoutProject(s, p) ==
    [s EXCEPT !.projects = [q \in DOMAIN s.projects \ {p} |-> s.projects[q]],
              !.timeline_states = { d \in s.timeline_states : d.project_id # p }]

\* the store as it would be if snapshot id did not exist
WithoutSnapshot(s, id) ==
    [s EXCEPT !.timeline_states = { d \in s.timeline_states : d.id # id }]

\* what the caller can observe of a call
Responses(outcomes) == { o.response : o \in outcomes }

\* the default page of GET /{project_id}/history
HistoryLimit == 20

\* C15: a caller who is neither owner nor collaborator gets the same
\* access-denied outcome from Save, GetCurrent, GetHistory, Restore and Delete
\* whether or not the project, or the snapshot the request names, exists.
C15_DenialIndependentOfExistence ==
    \A u \in UserIds, p \in ProjectIds :
        ~MayUse(p, u) =>
            /\ \A s \in {Store, WithoutProject(Store, p)} :
                  /\ \A m \in TimelineStates :
                        Responses(save_timeline_state(s, p, u, m, None, None))
                          = {AccessDenied}
                  /\ Responses(get_current_timeline_state(s, p, u)) = {AccessDenied}
                  /\ Responses(get_timeline_history(s, p, u, HistoryLimit, 0))
                       = {AccessDenied}
                  /\ \A v \in Versions :
                        Responses(restore_timeline_state(s, p, v, u)) = {AccessDenied}
            /\ \A d \in OfProject(timeline_states, p) :
                  \A s \in {Store, WithoutSnapshot(Store, d.id)} :
                      Responses(delete_timeline_state(s, d.id, u)) = {AccessDenied}

\* a response that is an access or validation error, or not-found
Refused(resp) ==
    \/ resp.status # "ok" /\ resp.raised \in {"ValidationError", "DatabaseError"}
    \/ resp.status = "ok" /\ resp.value \in {<<>>, <<Bool(FALSE)>>}

\* an outcome that left the snapshots and the audit log as they are
NoEffect(o) ==
    /\ o.timeline_states = timeline_states
    /\ o.audit_logs = audit_logs
    /\ o.next_id = next_id

\* C16: a Save, Update, Restore, Delete or GetByVersion that ends in an access
\* error, a validation error (delete of the current snapshot) or not-found
\* (absent version, absent snapshot) has no side effects: every stored
\* snapshot, its is_current flag included, is unchanged and no audit entry is
\* appended.
C16_FailureHasNoEffect ==
    \A u \in UserIds :
        /\ \A p \in ProjectIds :
              /\ \A m \in TimelineStates :
                    \A o \in save_timeline_state(Store, p, u, m, None, None) :
                        Refused(o.response) => NoEffect(o)
              /\ \A v \in Versions :
                    /\ \A o \in restore_timeline_state(Store, p, v, u) :
                          Refused(o.response) => NoEffect(o)
                    /\ \A o \in get_timeline_state_by_version(Store, p, v, u) :
                          Refused(o.response) => NoEffect(o)
        /\ \A id \in TimelineIds :
              /\ \A r \in UpdateRequests :
                    \A o \in update_timeline_state(Store, id, r, u) :
                        Refused(o.response) => NoEffect(o)
              /\ \A o \in delete_timeline_state(Store, id, u) :
                    Refused(o.response) => NoEffect(o)

C16_Witness ==
    \E d, e \in timeline_states :
        /\ d.project_id = e.project_id
        /\ d.is_current /\ ~e.is_current
        /\ \E o \in delete_timeline_state(Store, d.id, "u1") :
              o.response.status # "ok" /\ NoEffect(o)
        /\ \E v \in Versions :
              \E o \in restore_timeline_state(Store, d.project_id, v, "u1") :
                  o.response = Returned(<<>>) /\ NoEffect(o)
        /\ \E o \in restore_timeline_state(Store, d.project_id, e.version, "u2") :
              o.response = AccessDenied /\ NoEffect(o)
        /\ \E id \in TimelineIds, r \in UpdateRequests :
              \E o \in update_timeline_state(Store, id, r, "u1") :
                  o.response = Returned(<<>>) /\ NoEffect(o)

\* C17: a failure to persist an audit entry never makes the triggering
\* operation fail or undo its work: when the audit write of a Save,
\* GetCurrent, GetByVersion, Update, Restore or Delete raises, the handler
\* goes on where it would have gone, returns its normal result, is not run
\* again, and its snapshot changes stay applied.
C17_AuditFailureSwallowed ==
    [][ \A k \in Tasks :
          ( /\ task[k].pc \in AuditPcs
            /\ task'[k] # task[k]
            /\ audit_logs' = audit_logs ) =>
              /\ timeline_states' = timeline_states
              /\ task'[k].pc = "idle" =>
                    /\ task'[k].response.status = "ok"
                    /\ task'[k].response.value # <<>>
              /\ task'[k].pc # "idle" =>
                    /\ task'[k].pc \in {"restore_unset", "update_return"}
                    /\ Attempt(task'[k]) = Attempt(task[k])
              /\ task[k].pc = "save_audit" =>
                    /\ task[k].doc \in timeline_states'
                    /\ task'[k].response.value[1] = TimelineStateDocument(task[k].doc)
              /\ task[k].pc = "delete_audit" =>
                    FindId(timeline_states', task[k].timeline_id) = {}
              /\ task[k].pc = "restore_audit" =>
                    \E d \in timeline_states' :
                        d.id = task[k].timeline_to_restore.id /\ d.is_current
              /\ task[k].pc = "update_audit" =>
                    \E d \in timeline_states' :
                        /\ d.id = task[k].timeline_id
                        /\ d.updated_at = task[k].update_data.updated_at ]_vars

C17_Witness ==
    \E k \in Tasks, d \in timeline_states :
        /\ task[k].pc = "idle"
        /\ task[k].op = "save"
        /\ task[k].response.status = "ok"
        /\ task[k].response.value # <<>>
        /\ task[k].response.value[1].id = d.id
        /\ d.is_current
        /\ \A i \in 1..Len(audit_logs) : audit_logs[i].resource_id # d.id

\* the failures of the store that count as transient: connection loss,
\* server-selection timeout, network timeout
Transient == {"ConnectionFailure", "ServerSelectionTimeoutError", "NetworkTimeout"}

\* C18: the retry wrapper runs the body of an operation at most
\* max_retries + 1 times per call, and it runs the body again only after a
\* transient failure of the store; after a failure of any other kind the body
\* is not run again.
C18_RetryOnlyTransient ==
    [][ \A k \in Tasks :
          /\ Attempt(task'[k]) + 1 <= max_retries + 1
          /\ Inner(task'[k]) + 1 <= max_retries + 1
          /\ ( \/ Attempt(task'[k]) > Attempt(task[k])
               \/ Inner(task'[k]) > Inner(task[k]) ) =>
                 task'[k].fault \in Transient ]_vars

\* the exception reaches the caller with the kind the handler raised
StableKind(resp) ==
    resp.status \notin {"ok", "none"} =>
        ( resp.raised \in {"ValidationError", "OperationError"} =>
              resp.status = resp.raised )

\* C19: every error reaches the caller of a store operation with a stable
\* kind: a denied access and a refused delete of the current snapshot arrive
\* as ValidationError, a write that modified or deleted nothing arrives as
\* OperationError; the retry wrapper does not turn them into another kind.
C19_StableErrorKinds ==
    /\ \A k \in Tasks : task[k].pc = "idle" => StableKind(task[k].response)
    /\ \A u \in UserIds, p \in ProjectIds :
          ~MayUse(p, u) =>
              \A o \in get_current_timeline_state(Store, p, u) :
                  o.response.status = "ValidationError"
    /\ \A d \in timeline_states, u \in UserIds :
          (MayUse(d.project_id, u) /\ d.is_current) =>
              \A o \in delete_timeline_state(Store, d.id, u) :
                  o.response.status = "ValidationError"

\* a path of the multi-segment machinery: a temporary extract or the concat list
TempOrList(path) ==
    /\ path.dir = processed_dir
    /\ \/ Head(path.name) = "temp_segment_"
       \/ path.name = <<"concat_list.txt">>

\* the files of the multi-segment machinery in a media directory
Machinery(dir) == [p \in { q \in DOMAIN dir : TempOrList(q) } |-> dir[p]]

\* the output path of the single-segment compile of a video
TrimmedPath(video_path) == Join(processed_dir, <<"trimmed_">> \o basename(video_path))

\* C20: a compile with fewer than two segments stays out of the
\* multi-segment machinery.  With an empty list it returns the source path,
\* invokes the transcoder zero times and leaves the media directory as it
\* was.  With one segment it invokes the transcoder exactly once, an extract
\* of the source from startTime to startTime + duration, and neither
\* creates nor touches a temporary extract file or the concat list, whether
\* the extract succeeds or raises.
C20_FastPath ==
    \A video_path \in Videos :
        /\ \A o \in trim_video_segments(FS, video_path, <<>>) :
              /\ o.response = Returned(<<video_path>>)
              /\ o.runs = runs
              /\ o.files = files
        /\ \A segment \in Segments :
              \A o \in trim_video_segments(FS, video_path, <<segment>>) :
                  /\ Len(o.runs) = Len(runs) + 1
                  /\ SubSeq(o.runs, 1, Len(runs)) = runs
                  /\ LET run == o.runs[Len(o.runs)]
                     IN /\ run.op = "extract"
                        /\ run.input = video_path
                        /\ run.ss = segment.startTime
                        /\ run.ss + run.t = segment.startTime + segment.duration
                  /\ Machinery(o.files) = Machinery(files)
                  /\ o.response.status = "ok" =>
                        o.response = Returned(<<TrimmedPath(video_path)>>)

\* a compile of a single segment wrote its output with one extract and
\* returned its path, in a media directory that holds a temporary file left
\* by an earlier multi-segment compile
C20_Witness ==
    /\ task[1].op = "compile"
    /\ Len(task[1].segments) = 1
    /\ task[1].response = Returned(<<TrimmedPath(task[1].video_path)>>)
    /\ runs # <<>>
    /\ runs[Len(runs)].op = "extract"
    /\ runs[Len(runs)].output = TrimmedPath(task[1].video_path)
    /\ TrimmedPath(task[1].video_path) \in DOMAIN files
    /\ files[TrimmedPath(task[1].video_path)].kind = "video"
    /\ Machinery(files) # Machinery(InitFiles)

\* the output path of the multi-segment compile of a video
SegmentsPath(video_path) == Join(processed_dir, <<"segments_">> \o basename(video_path))

\* the concat list of the multi-segment compile
ConcatListPath == Join(processed_dir, <<"concat_list.txt">>)

\* the clips are in ascending start order
Ascending(clips) ==
    \A i, j \in 1..Len(clips) : i < j => clips[i].ss <= clips[j].ss

\* the clips are the segments, one clip of the video per segment, in some order
OnePerSegment(clips, video_path, segments) ==
    /\ Len(clips) = Len(segments)
    /\ \A c \in PathsOf(clips) : c.input = video_path
    /\ \A g \in PathsOf(segments) :
          Cardinality({ i \in 1..Len(clips) :
                          clips[i].ss = g.startTime /\ clips[i].t = g.duration })
            = Cardinality({ i \in 1..Len(segments) : segments[i] = g })

\* C21: for two or more segments in any order, a compile that returns wrote
\* an output that is one clip per segment joined in ascending startTime
\* order, whatever the order of the request was; a compile whose concat step
\* raised leaves a concat list that names one temporary extract per segment,
\* each a different one.
C21_ConcatInStartOrder ==
    [][ LET req == task'[1]
        IN ( /\ req.op = "compile"
             /\ Len(req.segments) >= 2
             /\ Len(runs') > Len(runs) ) =>
               /\ req.response.status = "ok" =>
                     /\ req.response = Returned(<<SegmentsPath(req.video_path)>>)
                     /\ runs'[Len(runs')].op = "concat"
                     /\ runs'[Len(runs')].input = ConcatListPath
                     /\ OnePerSegment(files'[SegmentsPath(req.video_path)].clips,
                                      req.video_path, req.segments)
                     /\ Ascending(files'[SegmentsPath(req.video_path)].clips)
               /\ ( /\ req.response.status # "ok"
                    /\ runs'[Len(runs')].op = "concat" ) =>
                     LET lines == files'[ConcatListPath].lines
                     IN /\ Len(lines) = Len(req.segments)
                        /\ \A i \in 1..Len(lines) :
                              /\ Head(Resolve(lines[i]).name) = "temp_segment_"
                              /\ \A j \in 1..Len(lines) : i # j => lines[i] # lines[j]
      ]_vars

\* a compile whose request had the later segment first returned an output of
\* two clips in start order
C21_Witness ==
    /\ task[1].op = "compile"
    /\ task[1].response = Returned(<<SegmentsPath(task[1].video_path)>>)
    /\ Len(task[1].segments) = 2
    /\ task[1].segments[1].startTime > task[1].segments[2].startTime
    /\ Len(files[SegmentsPath(task[1].video_path)].clips) = 2
    /\ files[SegmentsPath(task[1].video_path)].clips[1].ss = task[1].segments[2].startTime
    /\ files[SegmentsPath(task[1].video_path)].clips[2].ss = task[1].segments[1].startTime

\* the temporary extract files in a media directory
TempFiles(dir) == { p \in DOMAIN dir : p.dir = processed_dir /\ Head(p.name) = "temp_segment_" }

\* C22: temporary extract files never leak from a compile: once a compile
\* has returned or raised, no temporary extract file is in the media
\* directory, whichever step raised.
C22_NoTempFileLeft ==
    task[1].pc = "idle" => TempFiles(files) = {}

\* C23: the concat list is deleted on every exit of the multi-segment path:
\* once a compile has returned or raised, the media directory holds no
\* concat list, whether the concat step succeeded or raised.
C23_NoConcatListLeft ==
    task[1].pc = "idle" => ConcatListPath \notin DOMAIN files

\* a segment no request may carry
Invalid(segment) == segment.duration <= 0 \/ segment.startTime < 0

\* C24: a segment list with a segment of duration <= 0 or startTime < 0 is
\* rejected with ValidationError before the transcoder is invoked and before
\* any file is created.
C24_InvalidSegmentRejected ==
    \A video_path \in Videos, segments \in SegmentLists :
        (\E i \in 1..Len(segments) : Invalid(segments[i])) =>
            \A o \in trim_video_segments(FS, video_path, segments) :
                /\ o.response.status = "ValidationError"
                /\ o.runs = runs
                /\ o.files = files

\* the task is inside trim_video_segments
Compiling(k) == task[k].pc \in {"trim", "extract", "list", "concat", "cleanup", "except"}

\* the paths the compile of a task writes, reads or removes, the source apart
UsedPaths(t) ==
    IF Len(t.segments) = 1
    THEN { TrimmedPath(t.video_path) }
    ELSE { SegmentsPath(t.video_path), ConcatListPath }
         \cup { Join(processed_dir,
                     <<"temp_segment_", ToString(i - 1), "_">> \o basename(t.video_path))
                : i \in 1..Len(t.segments) }

\* C25: two compiles that run at the same time for requests on different
\* videos use no path in common, be it a temporary extract, the concat list
\* or the output.
C25_ConcurrentPathsDisjoint ==
    \A j, k \in TrimTasks :
        ( /\ j # k
          /\ Compiling(j)
          /\ Compiling(k)
          /\ task[j].video_path # task[k].video_path ) =>
              UsedPaths(task[j]) \cap UsedPaths(task[k]) = {}

\* the route of task k has ended with the cancellation of its request
EndedCancelled(k) ==
    /\ task[k].pc = "idle"
    /\ task[k].op = "trim_video"
    /\ task[k].response.status = "CancelledError"

\* C26: a request cancelled during a multi-segment compile leaves none of
\* the temporary files of that compile: in no state has the request ended
\* by cancellation while a temporary extract or the concat list of its
\* compile is in the media directory.
C26_CancelLeavesNoTempFile ==
    \A k \in CancelTasks :
        (EndedCancelled(k) /\ Len(task[k].segments) >= 2) =>
            (UsedPaths(task[k]) \ {SegmentsPath(task[k].video_path)})
                \cap DOMAIN files = {}

\* a request was cancelled while its multi-segment compile had temporary
\* files on disk, the compile went on to write its output, and the request
\* ended with the cancellation
C26_Witness ==
    /\ EndedCancelled(1)
    /\ Len(task[1].segments) >= 2
    /\ task[1].cancelled_at \in {"list", "concat", "cleanup"}
    /\ SegmentsPath(task[1].video_path) \in DOMAIN files
    /\ runs # <<>>
    /\ runs[Len(runs)].op = "concat"

\* what the request supplies for field f, as it is stored
Supplied(req, f) == IF f = "timeline_state" THEN TimelineStateDict(req[f]) ELSE req[f]

\* after is before with the fields of the request and updated_at set, and
\* nothing else changed
OnlySupplied(before, after, req) ==
    /\ DOMAIN after = DOMAIN before
    /\ \A f \in DOMAIN before :
          IF f \in DOMAIN req THEN after[f] = Supplied(req, f)
          ELSE f # "updated_at" => after[f] = before[f]

\* C27: Update of a stored snapshot changes the fields the request supplies
\* and updated_at, and nothing else: not the snapshot's version or
\* is_current, and no other snapshot.  Update of an id that is not stored, or
\* by a caller without access, returns nothing or raises and leaves the
\* store as it was.
C27_UpdateOnlySupplied ==
    \A id \in TimelineIds, req \in UpdateRequests, u \in UserIds :
        \A o \in update_timeline_state(Store, id, req, u) :
            /\ FindId(timeline_states, id) = {} =>
                  /\ o.response = Returned(<<>>)
                  /\ NoEffect(o)
            /\ o.response.status # "ok" => NoEffect(o)
            /\ \A d \in timeline_states :
                  IF d.id # id THEN d \in o.timeline_states
                  ELSE \E e \in o.timeline_states :
                          /\ e.id = id
                          /\ e.version = d.version
                          /\ e.is_current = d.is_current
                          /\ e.project_id = d.project_id
                          /\ o.response.status = "ok" => OnlySupplied(d, e, req)
            /\ Cardinality(o.timeline_states) = Cardinality(timeline_states)

\* an Update has set the description of a snapshot that is not current, in a
\* project whose current snapshot kept its own
C27_Witness ==
    \E d, c \in timeline_states :
        /\ d.project_id = c.project_id
        /\ d.description = "edited"
        /\ ~d.is_current
        /\ d.updated_at > d.created_at
        /\ c.is_current
        /\ c.description # "edited"
        /\ c.updated_at = c.created_at

\* the project is stored and not soft-deleted, and the caller is its owner or
\* one of its collaborators
Granted(p, u) ==
    /\ p \in DOMAIN projects
    /\ ~projects[p].is_deleted
    /\ (projects[p].user_id = u \/ u \in projects[p].collaborators)

\* the call was denied and wrote nothing
Denied(o) == o.response = AccessDenied /\ NoEffect(o)

\* C28: the access check lets a caller through if and only if the project is
\* stored, is not soft-deleted and the caller is its owner or a collaborator.
\* While a project is soft-deleted, Save, GetCurrent, Restore and Delete on it
\* are denied to every caller, its owner included; once the project is
\* restored they are let through again.
C28_AccessIffOwnerOrCollaborator ==
    \A p \in ProjectIds, u \in UserIds :
        /\ MayUse(p, u) <=> Granted(p, u)
        /\ ~Granted(p, u) =>
              /\ \A m \in TimelineStates, d \in Descriptions :
                    \A o \in save_timeline_state(Store, p, u, m, d, None) : Denied(o)
              /\ \A o \in get_current_timeline_state(Store, p, u) : Denied(o)
              /\ \A v \in Versions :
                    \A o \in restore_timeline_state(Store, p, v, u) : Denied(o)
              /\ \A e \in OfProject(timeline_states, p) :
                    \A o \in delete_timeline_state(Store, e.id, u) : Denied(o)
        /\ Granted(p, u) =>
              /\ \A m \in TimelineStates, d \in Descriptions :
                    \A o \in save_timeline_state(Store, p, u, m, d, None) :
                        o.response.status = "ok"
              /\ \A o \in get_current_timeline_state(Store, p, u) :
                    o.response.status = "ok"

\* a project with a current snapshot was soft-deleted by its owner
C28_Witness ==
    \E p \in ProjectIds, u \in UserIds :
        /\ p \in DOMAIN projects
        /\ projects[p].is_deleted
        /\ projects[p].user_id = u
        /\ CurrentOf(timeline_states, p) # {}

\* C29: Delete never removes a snapshot that is current at the moment of the
\* removal, also when it races with a Restore of that snapshot's version: a
\* snapshot that leaves the collection was not current, and the project it
\* leaves keeps exactly one current snapshot.
C29_DeleteNeverRemovesCurrent ==
    [][ \A d \in timeline_states :
            (\A e \in timeline_states' : e.id # d.id) =>
                /\ ~d.is_current
                /\ Cardinality(CurrentOf(timeline_states, d.project_id)) = 1 =>
                      Cardinality(CurrentOf(timeline_states', d.project_id)) = 1
      ]_vars

\* C30: the snapshot a successful Restore returns describes the stored state
\* after the restore: its is_current is TRUE, for a target that was not
\* current before the call as for one that was.
C30_RestoreReturnsCurrent ==
    \A p \in ProjectIds, v \in Versions, u \in UserIds :
        \A o \in restore_timeline_state(Store, p, v, u) :
            (o.response.status = "ok" /\ o.response.value # <<>>) =>
                /\ o.response.value[1].is_current
                /\ \E d \in o.timeline_states :
                      d.id = o.response.value[1].id /\ d.is_current
====
